---- MODULE Spec2Model ----
(***************************************************************************)
(* Garmin RSD decoding core: varint codec, custom CRC, varstruct decoder   *)
(* and the record iterators built on them (engine_classic_varstruct,       *)
(* engine_nextgen_syncfirst, rsd_core_crc_plus).                           *)
(*                                                                         *)
(* Byte buffers are sequences over 0..255.  Python offsets are 0-based:    *)
(* the byte at Python index i of buffer mm is At(mm, i) = mm[i + 1].       *)
(*                                                                         *)
(* Python integers are unbounded, TLC's are 32-bit signed.  Every value    *)
(* that can exceed 2^30 (varint accumulators, checksums, unpacked 32-bit   *)
(* fields) is therefore kept as a "wide" integer: a two's-complement bit   *)
(* vector of WBits bits, least significant bit first (w[1] is bit 0).      *)
(* The widest value the code can build is below 2^43.  File offsets and    *)
(* lengths stay ordinary integers.                                         *)
(***************************************************************************)
EXTENDS Integers, Sequences, FiniteSets, TLC

VARIABLES
    vbuf, vpos, vlimit, vres,       \* a varint reader call: buffer, pos, limit, outcome
    sbuf, spos, slimit, sres,       \* a _parse_varstruct call: buffer, pos, limit, outcome
    cbuf, cres,                     \* the two _crc32_custom on one byte string: data, outcomes
    fargs, fres,                    \* a find_magic call: arguments, outcome
    main,       \* the orchestrator (one_test.main / App._run.bg): position and locals
    worker,     \* the strict worker process of run_strict_with_timeout
    queue,      \* the multiprocessing.Queue between them
    sigData,    \* rsd_core_signature.parse_file: the bytes read from the file (data)
    sig,        \* ... its position and locals
    rsd,        \* the bytes of the mapped file (mm) of an engine run
    engine,     \* "classic", "nextgen" or "crc_plus"
    crcMode,    \* cfg["CRC_MODE"] of build_rows_and_assets
    scanStep,   \* SCAN_STEP of rsd_core_crc_plus
    cap,        \* limit_records / max_records (0 = None)
    cur,        \* scan cursor (pos of the iterators, i of build_rows_and_assets)
    count,      \* the iterator's count
    recs,       \* records yielded / appended so far
    nrows,      \* rows written by parse_rsd
    ret,        \* count returned by parse_rsd / build_rows_and_assets (-1: none yet)
    pc,         \* "run", "done" (loop left), "raised" (exception left the loop)
    hooks,      \* the installed progress and cancel hooks
    calls,      \* the percentages handed to the progress hook so far, oldest first
    last,       \* last of build_rows_and_assets: the percentage reported last
    cancelled   \* the cancel hook answered true at the latest poll

codecVars == <<vbuf, vpos, vlimit, vres>>
vsVars == <<sbuf, spos, slimit, sres>>
crcVars == <<cbuf, cres>>
findVars == <<fargs, fres>>
orchVars == <<main, worker, queue>>
sigVars == <<sigData, sig>>
auxVars == <<crcVars, findVars, orchVars, sigVars>>
engVars == <<rsd, engine, crcMode, scanStep, cap, cur, count, recs, nrows, ret, pc,
             hooks, calls, last, cancelled>>
vars == <<vbuf, vpos, vlimit, vres, sbuf, spos, slimit, sres, cbuf, cres,
          fargs, fres, main, worker, queue, sigData, sig,
          rsd, engine, crcMode, scanStep, cap, cur, count, recs, nrows, ret, pc,
          hooks, calls, last, cancelled>>

(***************************************************************************)
(* Bounds of the model.                                                    *)
(***************************************************************************)
WBits == 48             \* width of the bit vectors that stand for Python ints
MaxVarLen == 6          \* longest raw buffer handed to the varint readers
MaxBodyLen == 3         \* longest enumerated varstruct content (count + fields)
MaxSegs == 2            \* most segments (records, garbage) laid end to end in a file
MaxCap == 1             \* largest record cap tried (0 = no cap)
MaxCrcLen == 3          \* longest byte string handed to the two checksums
MaxFindPad == 2         \* longest filler before, between and after the patterns scanned for
MaxRows == 11           \* most rows a strict pass reports
MaxPoints == 12         \* most points a heuristic pass reports
MaxLead == 1            \* most bytes before the first header of a heuristic-engine buffer
PassBlock == 40         \* passes of a loop evaluated at one level of a whole run
MaxScanStep == 2        \* largest scan_step read from parsing_rules.json

(***************************************************************************)
(* Wide integers: Python's <<, >>, &, |, ^, unary -, comparisons.          *)
(***************************************************************************)
RECURSIVE Pow2Rec(_)
Pow2Rec(n) == IF n = 0 THEN 1 ELSE 2 * Pow2Rec(n - 1)

Pow2Table == SubSeq([n \in 1..31 |-> Pow2Rec(n - 1)], 1, 31)

\* 2^n, 0 <= n <= 30
Pow2(n) == Pow2Table[n + 1]

\* a bit vector as a plain tuple of WBits bits
Vec(f) == SubSeq(f, 1, WBits)

\* TLC evaluates operator arguments on demand, so a loop that carries an
\* accumulator would pile up unevaluated updates.  Ready(x) is TRUE and has x
\* evaluated: CASE Ready(x) -> e evaluates x, then e.
Ready(x) == x = x

\* the wide integer of an ordinary integer n, 0 <= n < 2^31
W(n) == Vec([i \in 1..WBits |-> IF i <= 31 THEN (n \div Pow2(i - 1)) % 2 ELSE 0])

WShl(w, s) == Vec([i \in 1..WBits |-> IF i <= s THEN 0 ELSE w[i - s]])
WShr(w, s) == Vec([i \in 1..WBits |-> IF i + s <= WBits THEN w[i + s] ELSE w[WBits]])
WOr(a, b)  == Vec([i \in 1..WBits |-> IF a[i] = 1 \/ b[i] = 1 THEN 1 ELSE 0])
WAnd(a, b) == Vec([i \in 1..WBits |-> IF a[i] = 1 /\ b[i] = 1 THEN 1 ELSE 0])
WXor(a, b) == Vec([i \in 1..WBits |-> IF a[i] # b[i] THEN 1 ELSE 0])
WNot(a)    == Vec([i \in 1..WBits |-> 1 - a[i]])

\* carry into bit i of a + 1
RECURSIVE IncCarry(_, _)
IncCarry(a, i) == IF i = 1 THEN 1 ELSE IF a[i - 1] = 1 THEN IncCarry(a, i - 1) ELSE 0

WInc(a) == Vec([i \in 1..WBits |-> (a[i] + IncCarry(a, i)) % 2])

\* unary minus: -a = ~a + 1
WNeg(a) == WInc(WNot(a))

WIsNeg(a) == a[WBits] = 1

\* a < 2^k for a >= 0
WBelowPow2(a, k) == \A i \in (k + 1)..WBits : a[i] = 0

\* byte j (1 = least significant) of a wide integer
WByte(w, j) ==
    w[8*j - 7] + 2 * w[8*j - 6] + 4 * w[8*j - 5] + 8 * w[8*j - 4]
        + 16 * w[8*j - 3] + 32 * w[8*j - 2] + 64 * w[8*j - 1] + 128 * w[8*j]

\* the ordinary integer of a wide integer 0 <= a < 2^30
WInt(a) == WByte(a, 1) + 256 * WByte(a, 2) + 65536 * WByte(a, 3)
               + 16777216 * (WByte(a, 4) % 64)

\* a > k, a wide and not negative, k an ordinary integer 0 <= k < 2^30
WGtInt(a, k) == ~WBelowPow2(a, 30) \/ WInt(a) > k

\* low k bits of a (a & (2^k - 1))
WLow(a, k) == Vec([i \in 1..WBits |-> IF i <= k THEN a[i] ELSE 0])

At(mm, i) == mm[i + 1]

\* Python slice mm[a:b] for 0 <= a: silently truncated at len(mm).
Slice(mm, a, b) ==
    LET e == IF b > Len(mm) THEN Len(mm) ELSE b
    IN  IF a >= e THEN <<>> ELSE SubSeq(mm, a + 1, e)

(***************************************************************************)
(* Little-endian packing (struct.pack / struct.unpack / int.from_bytes).   *)
(***************************************************************************)
\* unsigned value of up to 4 bytes, as a wide integer
WFromLE(bs) ==
    Vec([i \in 1..WBits |->
        IF i <= 8 * Len(bs) THEN (bs[((i - 1) \div 8) + 1] \div Pow2((i - 1) % 8)) % 2
        ELSE 0])

\* the k low bytes of a wide integer
WToLE(w, k) == SubSeq([j \in 1..k |-> WByte(w, j)], 1, k)

\* unsigned value of at most 2 bytes, as an ordinary integer
RECURSIVE FromLE(_)
FromLE(bs) == IF bs = <<>> THEN 0 ELSE bs[1] + 256 * FromLE(Tail(bs))

MAGIC_REC_HDR == WFromLE(<<134, 218, 233, 183>>)    \* 0xB7E9DA86
MAGIC_REC_TRL == WFromLE(<<124, 75, 38, 217>>)      \* 0xD9264B7C

\* struct.pack('<I', MAGIC_REC_HDR)
MAGIC_HDR_BYTES == WToLE(MAGIC_REC_HDR, 4)

(***************************************************************************)
(* Varint codec.  A reader outcome: ok, the value returned (wide), the     *)
(* unsigned value accumulated before zig-zag (u, wide), the position after *)
(* the last byte consumed (pos) and, on failure, the exception message.    *)
(***************************************************************************)
VarOk(v, u, p) == [ok |-> TRUE, val |-> v, u |-> u, pos |-> p, err |-> ""]
VarErr(msg, p) == [ok |-> FALSE, val |-> W(0), u |-> W(0), pos |-> p, err |-> msg]

\* a final-byte test that leaves 3 payload bits instead of 4
FinalByteOverflowTight(shift, b) == shift >= 28 /\ (b % 128) > 7

\* core_shared._read_varuint_from: (shift >= 28) and (b & ~0x80) > 0x0F
FinalByteOverflow(shift, b) == shift >= 28 /\ (b % 128) > 15

\* core_shared._read_varuint_from: while pos < limit and shift < max_shift
VaruintLoopGuard(pos, limit, shift) == pos < limit /\ shift < 35

RECURSIVE ReadVaruintLoop(_, _, _, _, _)
ReadVaruintLoop(mm, pos, limit, res, shift) ==
    IF ~VaruintLoopGuard(pos, limit, shift)
    THEN VarErr("VarUInt too long or truncated", pos)
    ELSE IF pos >= Len(mm) THEN VarErr("IndexError", pos)
    ELSE LET Shifted(b, r) ==
                 IF FinalByteOverflow(shift, b)
                 THEN VarErr("VarUInt overflow in final byte", pos + 1)
                 ELSE IF WIsNeg(r) \/ ~WBelowPow2(r, 32)
                 THEN VarErr("VarUInt exceeds 32 bits", pos + 1)
                 ELSE IF b < 128 THEN VarOk(r, r, pos + 1)
                 ELSE ReadVaruintLoop(mm, pos + 1, limit, r, shift + 7)
             \* b = mm[pos]; res |= (b & 0x7F) << shift
             Fetched(b) == Shifted(b, WOr(res, WShl(W(b % 128), shift)))
         IN  Fetched(At(mm, pos))

ReadVaruintFrom(mm, pos, limit) == ReadVaruintLoop(mm, pos, limit, W(0), 0)

\* v = (u >> 1) ^ (-(u & 1))
Zigzag(u) == WXor(WShr(u, 1), WNeg(WAnd(u, W(1))))

\* core_shared._read_varint_from: the buffer is indexed relative to pos
\* (b = buf[i - pos]); the loop leaves once shift exceeds 35.
RECURSIVE ReadVarintLoop(_, _, _, _, _, _)
ReadVarintLoop(buf, pos, limit, i, res, shift) ==
    IF ~(i < limit) THEN VarErr("VarInt overflow", i)
    ELSE IF i - pos >= Len(buf) THEN VarErr("IndexError", i)
    ELSE LET Shifted(b, r) ==
                 IF b < 128 THEN VarOk(Zigzag(r), r, i + 1)
                 ELSE IF shift + 7 > 35 THEN VarErr("VarInt overflow", i + 1)
                 ELSE ReadVarintLoop(buf, pos, limit, i + 1, r, shift + 7)
             \* b = buf[i - pos]; res |= (b & 0x7F) << shift
             Fetched(b) == Shifted(b, WOr(res, WShl(W(b % 128), shift)))
         IN  Fetched(At(buf, i - pos))

ReadVarintFrom(buf, pos, limit) == ReadVarintLoop(buf, pos, limit, pos, W(0), 0)

\* rsd_core_crc_plus._read_varuint_from
RECURSIVE PlusReadVaruintLoop(_, _, _, _, _)
PlusReadVaruintLoop(mv, pos, limit, res, shift) ==
    IF ~(pos < limit) THEN VarErr("VarUInt overflow", pos)
    ELSE IF pos >= Len(mv) THEN VarErr("IndexError", pos)
    ELSE LET Shifted(b, r) ==
                 IF b < 128 THEN VarOk(r, r, pos + 1)
                 ELSE IF shift + 7 > 35 THEN VarErr("VarUInt overflow", pos + 1)
                 ELSE PlusReadVaruintLoop(mv, pos + 1, limit, r, shift + 7)
             \* b = mv[pos]; res |= (b & 0x7F) << shift
             Fetched(b) == Shifted(b, WOr(res, WShl(W(b % 128), shift)))
         IN  Fetched(At(mv, pos))

PlusReadVaruintFrom(mv, pos, limit) == PlusReadVaruintLoop(mv, pos, limit, W(0), 0)

\* rsd_core_crc_plus._zigzag_to_int32
PlusZigzagToInt32(u) == WXor(WShr(u, 1), WNeg(WAnd(u, W(1))))

\* rsd_core_crc_plus._read_varint_from
PlusReadVarintFrom(mv, pos, limit) ==
    LET Decoded(r) == IF r.ok THEN VarOk(PlusZigzagToInt32(r.u), r.u, r.pos) ELSE r
    IN  Decoded(PlusReadVaruintFrom(mv, pos, limit))

(***************************************************************************)
(* Checksum.                                                               *)
(***************************************************************************)
CRC_POLY == 79764919        \* 0x04C11DB7

PolyW == W(CRC_POLY)

\* The crc register is kept masked to 32 bits by every assignment of the
\* loop (& 0xFFFFFFFF); it is held as its 4 bytes, least significant first.
Zero32 == <<0, 0, 0, 0>>

\* bitwise exclusive or of two bytes
RECURSIVE Xor8(_, _)
Xor8(a, b) ==
    IF a = 0 THEN b ELSE IF b = 0 THEN a
    ELSE ((a + b) % 2) + 2 * Xor8(a \div 2, b \div 2)

\* the bytes of poly, and x ^ (byte k of poly) for every byte x
POLY_LE == WToLE(PolyW, 4)
PolyXor == SubSeq([k \in 1..4 |-> SubSeq([x \in 1..256 |-> Xor8(x - 1, POLY_LE[k])], 1, 256)],
                  1, 4)

\* crc ^= (int(b) << 24) & 0xFFFFFFFF
CrcXorByte(crc, b) == <<crc[1], crc[2], crc[3], Xor8(crc[4], b)>>

\* (crc << 1) & 0xFFFFFFFF
CrcShl1(crc) ==
    <<(2 * crc[1]) % 256,
      (2 * crc[2] + (crc[1] \div 128)) % 256,
      (2 * crc[3] + (crc[2] \div 128)) % 256,
      (2 * crc[4] + (crc[3] \div 128)) % 256>>

\* ((crc << 1) ^ poly) & 0xFFFFFFFF
CrcShl1XorPoly(crc) ==
    LET XorWith(t, s) == <<t[1][s[1] + 1], t[2][s[2] + 1], t[3][s[3] + 1], t[4][s[4] + 1]>>
    IN  XorWith(PolyXor, CrcShl1(crc))

\* if crc & 0x80000000: crc = ((crc << 1) ^ poly) & 0xFFFFFFFF
\* else:                crc = (crc << 1) & 0xFFFFFFFF
CrcStep(crc) ==
    IF crc[4] >= 128 THEN CrcShl1XorPoly(crc) ELSE CrcShl1(crc)

RECURSIVE CrcSteps(_, _)
CrcSteps(crc, k) ==
    IF k = 0 THEN crc
    ELSE CASE Ready(crc) -> CrcSteps(CrcStep(crc), k - 1)

\* the loop body for data[lo..hi], in order; the range is split in two runs
\* so that the evaluation nests log(hi - lo) deep
RECURSIVE CrcRange(_, _, _, _)
CrcRange(data, lo, hi, crc) ==
    IF lo > hi THEN crc
    ELSE IF lo = hi THEN CrcSteps(CrcXorByte(crc, data[lo]), 8)
    ELSE LET mid == lo + ((hi - lo + 1) \div 2)
             Rest(c) == CASE Ready(c) -> CrcRange(data, mid, hi, c)
         IN  Rest(CrcRange(data, lo, mid - 1, crc))

\* for b in data: crc ^= (b << 24) & 0xFFFFFFFF; 8 steps
CrcBytes(data, i, crc) ==
    CASE Ready(<<data, crc>>) -> CrcRange(data, i, Len(data), crc)

\* tmp >> 1
CrcShr1(tmp) ==
    <<(tmp[1] \div 2) + 128 * (tmp[2] % 2),
      (tmp[2] \div 2) + 128 * (tmp[3] % 2),
      (tmp[3] \div 2) + 128 * (tmp[4] % 2),
      tmp[4] \div 2>>

\* one round on p = <<rev, tmp>>: rev = (rev << 1) | (tmp & 1); tmp >>= 1
BitReverseRound(p) ==
    LET Moved(s, t) == <<<<s[1] + (t[1] % 2), s[2], s[3], s[4]>>, CrcShr1(t)>>
    IN  Moved(CrcShl1(p[1]), p[2])

\* k rounds on p, in order; the rounds are split in two runs so that the
\* evaluation nests log k deep
RECURSIVE BitReverseRounds(_, _)
BitReverseRounds(p, k) ==
    IF k = 0 THEN p
    ELSE IF k = 1 THEN BitReverseRound(p)
    ELSE LET Rest(q) == CASE Ready(q) -> BitReverseRounds(q, k - (k \div 2))
         IN  Rest(BitReverseRounds(p, k \div 2))

\* for _ in range(k): rev = (rev << 1) | (tmp & 1); tmp >>= 1   (k = 32)
BitReverse(rev, tmp, k) ==
    CASE Ready(<<rev, tmp>>) -> BitReverseRounds(<<rev, tmp>>, k)[1]

\* a checksum that returns the reversed register as it is
CrcFinalNoXor(rev) == rev

\* (rev ^ 0xFFFFFFFF) & 0xFFFFFFFF
CrcFinalXor(rev) == <<255 - rev[1], 255 - rev[2], 255 - rev[3], 255 - rev[4]>>

\* core_shared._crc32_custom
Crc32Custom(data) ==
    WFromLE(CrcFinalXor(BitReverse(Zero32, CrcBytes(data, 1, Zero32), 32)))

(***************************************************************************)
(* Varstruct decoder (core_shared._parse_varstruct).                       *)
(* Outcome: ok / err, the field map, the returned position, and what the   *)
(* call did: hi = 1 + the highest buffer index read (0 when none), nread = *)
(* the field-count varuint was read, n = its value (wide), nkeys = the     *)
(* number of field keys decoded, decl = the declared length of each stored *)
(* field, crcOk = the computed checksum equals the stored one.             *)
(***************************************************************************)
EmptyMap == [x \in {} |-> <<>>]

MapPut(f, k, v) == [x \in (DOMAIN f) \cup {k} |-> IF x = k THEN v ELSE f[x]]

\* dict.get(k, default)
MapGet(f, k, d) == IF k \in DOMAIN f THEN f[k] ELSE d

Max(a, b) == IF a >= b THEN a ELSE b
Min(a, b) == IF a <= b THEN a ELSE b

VsFail(msg, hi, nread, n, nkeys) ==
    [ok |-> FALSE, err |-> msg, fields |-> EmptyMap, pos |-> 0, hi |-> hi,
     nread |-> nread, n |-> n, nkeys |-> nkeys, decl |-> EmptyMap, crcOk |-> FALSE]

\* if n < 0 or n > 50: raise
FieldCountBad(n) == WIsNeg(n) \/ WGtInt(n, 50)

\* except ValueError: the handler re-raises only when crc_mode == 'warn'
CountErrorRaised(crc_mode) == crc_mode = "warn"

\* if vlen < 0 or vlen > (limit - pos): raise
ExplicitLenBad(vlen, pos, limit) == WIsNeg(vlen) \/ WGtInt(vlen, limit - pos)

\* the decoder without its end-of-value test
ValueNeverOverruns(endv, limit) == FALSE

\* if endv > limit: raise
ValueOverruns(endv, limit) == endv > limit

\* if pos + 4 > limit: raise ValueError('Truncated before CRC')
CrcTruncated(pos, limit) == pos + 4 > limit

\* the decoder without its strict-mode rejection
CrcNeverRejected(crc_mode, crc_calc, crc_read) == FALSE

\* crc_mode == 'strict' and crc_calc != crc_read
CrcRejected(crc_mode, crc_calc, crc_read) ==
    crc_mode = "strict" /\ crc_calc # crc_read

\* for _ in range(n): the passes from the k-th (k fields done) on
ParseFields(mm, pos, limit, k, n, fields, decl, hi) ==
    \* st: the loop's variables after st.nkeys passes; kr: the key read
    \* (key, pos); lr: the value length and the position after it
    LET fn(kr) == WInt(WShr(kr.val, 3))
        lc(kr) == WInt(WLow(kr.val, 3))
        vlen(lr) == WInt(lr.val)
        endv(lr) == lr.pos + vlen(lr)
        Sized(st, kr, lr) ==
            IF ~lr.ok THEN VsFail(lr.err, Max(st.hi, lr.pos), TRUE, n, st.nkeys + 1)
            ELSE IF lc(kr) = 7 /\ ExplicitLenBad(lr.val, lr.pos, limit)
            THEN VsFail("Varstruct value exceeds file size", Max(st.hi, lr.pos), TRUE, n,
                        st.nkeys + 1)
            ELSE IF ValueOverruns(endv(lr), limit)
            THEN VsFail("Varstruct value exceeds file size", Max(st.hi, lr.pos), TRUE, n,
                        st.nkeys + 1)
            ELSE [st EXCEPT !.pos = endv(lr), !.nkeys = st.nkeys + 1,
                            !.fields = MapPut(st.fields, fn(kr), Slice(mm, lr.pos, endv(lr))),
                            !.decl = MapPut(st.decl, fn(kr), vlen(lr)),
                            !.hi = Max(Max(st.hi, lr.pos), Min(endv(lr), Len(mm)))]
        Keyed(st, kr) ==
            IF ~kr.ok THEN VsFail(kr.err, Max(st.hi, kr.pos), TRUE, n, st.nkeys)
            ELSE Sized(st, kr, IF lc(kr) = 7 THEN ReadVaruintFrom(mm, kr.pos, limit)
                               ELSE VarOk(W(lc(kr)), W(lc(kr)), kr.pos))
        RECURSIVE Passes(_)
        Passes(st) ==
            IF ~st.ok \/ ~WGtInt(n, st.nkeys) THEN st
            ELSE CASE Ready(st) -> Passes(Keyed(st, ReadVaruintFrom(mm, st.pos, limit)))
    IN  Passes([ok |-> TRUE, err |-> "", fields |-> fields, pos |-> pos, hi |-> hi,
                nread |-> TRUE, n |-> n, nkeys |-> k, decl |-> decl, crcOk |-> FALSE])

ParseVarstruct(mm, pos, limit, crc_mode) ==
    LET start == pos
        magic_present == (pos + 4 <= limit)
                         /\ Len(Slice(mm, pos, pos + 4)) = 4
                         /\ WFromLE(Slice(mm, pos, pos + 4)) = MAGIC_REC_HDR
        hi0 == IF pos + 4 <= limit THEN Min(pos + 4, Len(mm)) ELSE 0
        \* crc_read vs crc_calc = _crc32_custom(mm[start:pos])
        Checked(fr, crc_read, crc_calc) ==
            IF CrcRejected(crc_mode, crc_calc, crc_read)
            THEN VsFail("CRC mismatch", Max(fr.hi, fr.pos + 4), TRUE, fr.n, fr.nkeys)
            ELSE [fr EXCEPT !.pos = fr.pos + 4, !.hi = Max(fr.hi, fr.pos + 4),
                            !.crcOk = (crc_calc = crc_read)]
        \* after the field loop
        Parsed(fr) ==
            IF ~fr.ok THEN fr
            ELSE IF CrcTruncated(fr.pos, limit)
            THEN VsFail("Truncated before CRC", fr.hi, TRUE, fr.n, fr.nkeys)
            ELSE IF Len(Slice(mm, fr.pos, fr.pos + 4)) # 4
            THEN VsFail("struct.error", Max(fr.hi, Len(mm)), TRUE, fr.n, fr.nkeys)
            ELSE Checked(fr, WFromLE(Slice(mm, fr.pos, fr.pos + 4)),
                         Crc32Custom(Slice(mm, start, fr.pos)))
        \* after n, pos = _read_varuint_from(mm, pos, limit)
        Counted(cr, hi1) ==
            IF ~cr.ok /\ CountErrorRaised(crc_mode)
            THEN VsFail(cr.err, hi1, FALSE, W(0), 0)
            ELSE IF ~cr.ok THEN VsFail("UnboundLocalError", hi1, FALSE, W(0), 0)
            ELSE IF FieldCountBad(cr.val) /\ CountErrorRaised(crc_mode)
            THEN VsFail("Unreasonable field count", hi1, TRUE, cr.val, 0)
            ELSE Parsed(ParseFields(mm, cr.pos, limit, 0, cr.val, EmptyMap, EmptyMap, hi1))
        Started(p0, cr) == Counted(cr, IF cr.pos > p0 THEN Max(hi0, cr.pos) ELSE hi0)
        \* the leading magic, when present, is skipped
        Entered(p0) == Started(p0, ReadVaruintFrom(mm, p0, limit))
    IN  IF (pos + 4 <= limit) /\ Len(Slice(mm, pos, pos + 4)) # 4
        THEN VsFail("struct.error", hi0, FALSE, W(0), 0)
        ELSE Entered(IF magic_present THEN pos + 4 ELSE pos)

(***************************************************************************)
(* Magic scanner.                                                          *)
(***************************************************************************)
\* bytes.find / mmap.find(sub, start, end): lowest index i >= start with
\* mm[i : i + len(sub)] == sub and i + len(sub) <= end, or -1
\* (the lowest match, when there is one within eight lengths of sub after
\* start, is found there without looking at the rest of mm)
BytesFind(mm, sub, start, end) ==
    LET e == Min(end, Len(mm))
        Hits(a, b) == {i \in a..b : SubSeq(mm, i + 1, i + Len(sub)) = sub}
        Least(hits) == IF hits = {} THEN -1 ELSE CHOOSE i \in hits : \A j \in hits : i <= j
        Else(near) == IF near # -1 THEN near ELSE Least(Hits(start, e - Len(sub)))
    IN  Else(Least(Hits(start, Min(start + 8 * Len(sub), e - Len(sub)))))

FIND_CHUNK == 33554432      \* 32*1024*1024

\* core_shared.find_magic: the chunked loop, from chunk start s
RECURSIVE FindMagicLoop(_, _, _, _, _)
FindMagicLoop(mm, magic_bytes, s, end, chunk) ==
    IF ~(s < end) THEN -1
    ELSE LET e == Min(end, s + chunk)
             idx == BytesFind(mm, magic_bytes, s, e)
         IN  IF idx # -1 THEN idx
             ELSE FindMagicLoop(mm, magic_bytes, e, end, chunk)

\* core_shared.find_magic(mm, magic_bytes, start, end, chunk)
FindMagic(mm, magic_bytes, start0, end0, chunk) ==
    LET start == Max(0, start0)
        end == Min(Len(mm), end0)
    IN  IF end <= start THEN -1
        ELSE IF end - start <= chunk THEN BytesFind(mm, magic_bytes, start, end)
        ELSE FindMagicLoop(mm, magic_bytes, start, end, chunk)

(***************************************************************************)
(* Strict engine: one pass of the while loop of                            *)
(* engine_classic_varstruct._iter_records.                                 *)
(***************************************************************************)
\* an optional value: <<>> is None, <<v>> is v
None == <<>>
Some(v) == <<v>>

\* int.from_bytes(b, 'little', signed=True) of 4 bytes
WSigned32(bs) ==
    LET u == WFromLE(bs)
    IN  Vec([i \in 1..WBits |-> IF i <= 32 THEN u[i] ELSE u[32]])

\* a cursor h + c, c a validated chunk size (wide, > 0); a sum beyond 2^30 is
\* beyond every file and is kept as 2^30
CursorAfter(h, c) == IF WBelowPow2(c, 30) THEN Min(h + WInt(c), Pow2(30)) ELSE Pow2(30)

\* the cursor left on the record just yielded
ClassicNextPosStalled(hdr_start, chunk_size) == hdr_start

\* pos = hdr_start + chunk_size
ClassicNextPos(hdr_start, chunk_size) == CursorAfter(hdr_start, chunk_size)

\* a resynchronisation one byte on, inside the magic
ClassicResyncByOne(pos_magic) == pos_magic + 1

\* the cursor after a failed candidate: pos = pos_magic + 4
ClassicResyncPos(pos_magic) == pos_magic + 4

TrailerNeverMismatch(tr_magic, chunk_size) == FALSE

\* if tr_magic != MAGIC_REC_TRL or chunk_size <= 0
TrailerMismatch(tr_magic, chunk_size) ==
    tr_magic # MAGIC_REC_TRL \/ WIsNeg(chunk_size) \/ chunk_size = W(0)

\* if trailer_pos + 12 > limit: break
TrailerBeyondLimit(trailer_pos, limit) == trailer_pos + 12 > limit

\* the cap test without its `limit_records and` guard
ClassicCapReachedUnguarded(limit_records, n) == n >= limit_records

\* if limit_records and count >= limit_records: break
ClassicCapReached(limit_records, n) == limit_records # 0 /\ n >= limit_records

\* struct.unpack('<I', x) fails unless len(x) == 4; '<H' unless len(x) == 2
UnpackFails(x, size) == Len(x) # size

ZEROS4 == <<0, 0, 0, 0>>
ZEROS2 == <<0, 0>>

\* the record built from a decoded header and body
ClassicRecord(mm, hdr_start, h, b, body_start, seq, time_ms, data_sz) ==
    LET body == b.fields
        used == Max(0, b.pos - body_start)
        sonar_ofs == body_start + used
        sonar_len == IF data_sz > 0 THEN Max(0, data_sz - used) ELSE 0
        dep == ReadVarintFrom(Slice(mm, body_start, body_start + Len(body[1])),
                              0, Len(body[1]))
    IN  [ofs |-> hdr_start,
         channel_id |-> IF 0 \in DOMAIN body THEN Some(WFromLE(Slice(body[0], 0, 4)))
                        ELSE None,
         seq |-> seq, time_ms |-> time_ms, data_size |-> data_sz,
         lat |-> IF 9 \in DOMAIN body /\ Len(body[9]) >= 4
                 THEN Some(WSigned32(Slice(body[9], 0, 4))) ELSE None,
         lon |-> IF 10 \in DOMAIN body /\ Len(body[10]) >= 4
                 THEN Some(WSigned32(Slice(body[10], 0, 4))) ELSE None,
         depth_mm |-> IF 1 \in DOMAIN body /\ dep.ok THEN Some(dep.val) ELSE None,
         sample_cnt |-> IF 7 \in DOMAIN body THEN Some(WFromLE(Slice(body[7], 0, 4)))
                        ELSE None,
         sonar_ofs |-> IF sonar_len > 0 THEN Some(sonar_ofs) ELSE None,
         sonar_size |-> IF sonar_len > 0 THEN Some(sonar_len) ELSE None,
         body_start |-> body_start, body_end |-> b.pos,
         hdrCrcOk |-> h.crcOk, bodyCrcOk |-> b.crcOk]

\* a percentage handed to _emit, kept exact: <<n, d>> stands for (n/d)*100.0
Percent(n, d) == <<n, d>>

\* _emit(100.0, ...)
PERCENT_DONE == Percent(1, 1)

\* _emit(count, ...): the number itself is the percentage
PercentOfCount(n) == Percent(n, 100)

\* if count % 250 == 0
PROGRESS_EVERY == 250

\* _emit / _progress: without a hook nothing is called; with one the hook is
\* called, and whatever it raises is swallowed
Emit(hook, e) == IF hook = "none" THEN <<>> ELSE e

\* what one pass of the loop leaves: the cursor, the record counter, the
\* record yielded (<<>> when none), where control is afterwards, and the
\* percentages it handed to _emit, in order
PassEmit(c, n, y, where, e) ==
    [cur |-> c, count |-> n, yield |-> y, pc |-> where, emits |-> e]

Pass(c, n, y, where) == PassEmit(c, n, y, where, <<>>)

\* engine_classic_varstruct._iter_records: one pass of `while pos < limit`
ClassicPass(mm, pos, count0, limit_records) ==
    LET limit == Len(mm)
        f0(h) == Slice(MapGet(h.fields, 0, ZEROS4), 0, 4)
        hdr_ok(h) == h.ok /\ ~UnpackFails(f0(h), 4) /\ WFromLE(f0(h)) = MAGIC_REC_HDR
        f2(h) == Slice(MapGet(h.fields, 2, ZEROS4), 0, 4)
        f5(h) == Slice(MapGet(h.fields, 5, ZEROS4), 0, 4)
        f4a(h) == Slice(MapGet(h.fields, 4, ZEROS2), 0, 2)
        f4(h) == IF f4a(h) = <<>> THEN ZEROS2 ELSE f4a(h)
        \* count += 1; yield; then the cap check or pos = hdr_start + chunk_size
        \* _emit((pos/limit)*100.0, ...) with pos = pos_magic + 4
        here(pos_magic) == <<Percent(pos_magic + 4, limit)>>
        \* if count % 250 == 0: _emit((trailer_pos/limit)*100.0, ...)
        every(trailer_pos) ==
            IF (count0 + 1) % PROGRESS_EVERY = 0
            THEN <<Percent(trailer_pos, limit)>> ELSE <<>>
        Yielded(pos_magic, chunk_size, trailer_pos, rec) ==
            IF ClassicCapReached(limit_records, count0 + 1)
            THEN PassEmit(pos_magic + 4, count0 + 1, <<rec>>, "done",
                          every(trailer_pos) \o <<PERCENT_DONE>>)
            ELSE PassEmit(ClassicNextPos(pos_magic, chunk_size), count0 + 1, <<rec>>,
                          "run", every(trailer_pos))
        Trailed(pos_magic, h, b, data_sz, trailer_pos, tr_magic, chunk_size) ==
            IF TrailerBeyondLimit(trailer_pos, limit)
            THEN \* break
                 PassEmit(pos_magic + 4, count0, <<>>, "done", <<PERCENT_DONE>>)
            ELSE IF TrailerMismatch(tr_magic, chunk_size)
            THEN PassEmit(ClassicResyncPos(pos_magic), count0, <<>>, "run",
                          here(pos_magic))
            ELSE Yielded(pos_magic, chunk_size, trailer_pos,
                         ClassicRecord(mm, pos_magic, h, b, h.pos,
                                       WFromLE(f2(h)), WFromLE(f5(h)), data_sz))
        BodyParsed(pos_magic, h, b, data_sz, trailer_pos) ==
            IF ~b.ok
            THEN PassEmit(ClassicResyncPos(pos_magic), count0, <<>>, "run",
                          here(pos_magic))
            ELSE Trailed(pos_magic, h, b, data_sz, trailer_pos,
                         WFromLE(Slice(mm, trailer_pos, trailer_pos + 4)),
                         WFromLE(Slice(mm, trailer_pos + 4, trailer_pos + 8)))
        \* body_start = the position the header parse returned
        HeaderParsed(pos_magic, h) ==
            IF ~hdr_ok(h)
            THEN \* header parse failed or wrong magic field: continue
                 PassEmit(ClassicResyncPos(pos_magic), count0, <<>>, "run",
                          here(pos_magic))
            ELSE IF UnpackFails(f2(h), 4) \/ UnpackFails(f5(h), 4) \/ UnpackFails(f4(h), 2)
            THEN \* struct.error outside any try block
                 Pass(pos_magic + 4, count0, <<>>, "raised")
            ELSE BodyParsed(pos_magic, h, ParseVarstruct(mm, h.pos, limit, "strict"),
                            FromLE(f4(h)), h.pos + FromLE(f4(h)))
        Found(pos_magic) ==
            IF ~(pos < limit) \/ pos_magic < 0
            THEN \* loop condition false, or no more header magic
                 PassEmit(pos, count0, <<>>, "done", <<PERCENT_DONE>>)
            ELSE HeaderParsed(pos_magic, ParseVarstruct(mm, pos_magic, limit, "strict"))
    IN  Found(BytesFind(mm, MAGIC_HDR_BYTES, pos, limit))

\* parse_rsd consuming the generator: every record yielded is written as a
\* row (n += 1); when the generator ends, n is returned
ClassicIter ==
    /\ engine = "classic" /\ pc = "run"
    /\ \E o \in {ClassicPass(rsd, cur, count, cap)} :
          /\ cur' = o.cur
          /\ count' = o.count
          /\ recs' = recs \o o.yield
          /\ nrows' = nrows + Len(o.yield)
          /\ pc' = o.pc
          /\ ret' = IF o.pc = "done" THEN nrows + Len(o.yield) ELSE ret
          /\ calls' = calls \o Emit(hooks.progress, o.emits)
    /\ UNCHANGED <<rsd, engine, crcMode, scanStep, cap, hooks, last, cancelled,
                   codecVars, vsVars, auxVars>>

(***************************************************************************)
(* Tolerant engine: one pass of the while loop of                          *)
(* engine_nextgen_syncfirst._iter_records, consumed by its parse_rsd.      *)
(***************************************************************************)
DataSizeUnchecked(data_sz) == FALSE

\* if data_sz < 32 or data_sz > 65535
DataSizeBad(data_sz) == data_sz < 32 \/ data_sz > 65535

\* a cap that never ends the iteration
NextgenCapNeverExceeded(limit_records, n) == FALSE

\* if limit_records and count > limit_records: break
NextgenCapExceeded(limit_records, n) == limit_records # 0 /\ n > limit_records

BodyNeverBeyondLimit(body_start, data_sz, limit) == FALSE

\* if body_start + data_sz > limit: break
BodyBeyondLimit(body_start, data_sz, limit) == body_start + data_sz > limit

\* pos = body_start + data_sz
NextgenNextPos(body_start, data_sz) == body_start + data_sz

\* some field that struct.unpack reads with a fixed size is present with
\* another length: '<f' for fields 6..14, '<H' for fields 15..17
NextgenBodyUnpackFails(body) ==
    \/ \E k \in 6..14 : UnpackFails(Slice(MapGet(body, k, ZEROS4), 0, 4), 4)
    \/ \E k \in 15..17 : UnpackFails(Slice(MapGet(body, k, ZEROS2), 0, 2), 2)

NextgenRecord(pos_magic, h, b, body_start, seq, time_ms, data_sz) ==
    LET body == b.fields
        sample_cnt == FromLE(Slice(MapGet(body, 17, ZEROS2), 0, 2))
    IN  [ofs |-> pos_magic,
         channel_id |-> FromLE(Slice(MapGet(body, 15, ZEROS2), 0, 2)),
         seq |-> seq, time_ms |-> time_ms, data_size |-> data_sz,
         lat |-> Slice(MapGet(body, 6, ZEROS4), 0, 4),
         lon |-> Slice(MapGet(body, 7, ZEROS4), 0, 4),
         depth_m |-> Slice(MapGet(body, 8, ZEROS4), 0, 4),
         sample_cnt |-> sample_cnt,
         sonar_ofs |-> body_start + data_sz - sample_cnt * 2,
         sonar_size |-> sample_cnt * 2,
         color_id |-> FromLE(Slice(MapGet(body, 16, ZEROS2), 0, 2)),
         body_start |-> body_start, body_end |-> b.pos,
         hdrCrcOk |-> h.crcOk, bodyCrcOk |-> b.crcOk]

\* engine_nextgen_syncfirst._iter_records: one pass of `while pos < limit`
NextgenPass(mm, pos, count0, limit_records) ==
    LET limit == Len(mm)
        f0(h) == Slice(MapGet(h.fields, 0, ZEROS4), 0, 4)
        f2(h) == Slice(MapGet(h.fields, 2, ZEROS4), 0, 4)
        f5(h) == Slice(MapGet(h.fields, 5, ZEROS4), 0, 4)
        raw_size(h) == Slice(MapGet(h.fields, 4, ZEROS2), 0, 2)
        \* _emit((pos/limit)*100.0, ...) with pos = pos_magic + 4
        here(pos_magic) == <<Percent(pos_magic + 4, limit)>>
        BodyParsed(pos_magic, h, b, data_sz) ==
            IF ~b.ok \/ b.fields = EmptyMap \/ NextgenBodyUnpackFails(b.fields)
            THEN PassEmit(NextgenNextPos(h.pos, data_sz), count0, <<>>, "run",
                          here(pos_magic))
            ELSE IF NextgenCapExceeded(limit_records, count0 + 1)
            THEN \* count += 1; break
                 Pass(pos_magic + 4, count0 + 1, <<>>, "done")
            ELSE \* count += 1; yield; _emit when the generator is resumed
                 PassEmit(NextgenNextPos(h.pos, data_sz), count0 + 1,
                          <<NextgenRecord(pos_magic, h, b, h.pos,
                                          WFromLE(f2(h)), WFromLE(f5(h)), data_sz)>>,
                          "run", here(pos_magic))
        \* the pre-validation reports and re-raises into the outer handler,
        \* which reports again; a ValueError of the header parse is caught
        \* by a handler that reports nothing
        HeaderFailed(pos_magic, pre, h) ==
            IF ~pre.ok THEN here(pos_magic) \o here(pos_magic)
            ELSE IF FieldCountBad(pre.val) THEN here(pos_magic)
            ELSE IF ~h.ok THEN <<>>
            ELSE here(pos_magic)
        \* body_start = the position the header parse returned
        HeaderParsed(pos_magic, pre, h, data_sz) ==
            IF \/ ~pre.ok
               \/ FieldCountBad(pre.val)
               \/ ~h.ok
               \/ h.fields = EmptyMap
               \/ UnpackFails(f0(h), 4)
               \/ WFromLE(f0(h)) # MAGIC_REC_HDR
               \/ UnpackFails(f2(h), 4)
               \/ UnpackFails(f5(h), 4)
               \/ raw_size(h) = <<>>
               \/ UnpackFails(raw_size(h), 2)
               \/ DataSizeBad(data_sz)
            THEN \* every header failure is caught; pos stays pos_magic + 4
                 PassEmit(pos_magic + 4, count0, <<>>, "run",
                          HeaderFailed(pos_magic, pre, h))
            ELSE IF BodyBeyondLimit(h.pos, data_sz, limit)
            THEN \* break
                 Pass(pos_magic + 4, count0, <<>>, "done")
            ELSE BodyParsed(pos_magic, h,
                            ParseVarstruct(mm, h.pos, h.pos + data_sz, "warn"), data_sz)
        Sized(pos_magic, pre, h) == HeaderParsed(pos_magic, pre, h, FromLE(raw_size(h)))
        Synced(pos_magic, next_magic) ==
            IF Len(next_magic) = 4 /\ WFromLE(next_magic) = MAGIC_REC_HDR
            THEN \* false header: continue
                 Pass(pos_magic + 4, count0, <<>>, "run")
            ELSE Sized(pos_magic, ReadVaruintFrom(mm, pos_magic + 4, limit),
                       ParseVarstruct(mm, pos_magic, limit, "warn"))
        Found(pos_magic) ==
            IF ~(pos < limit) \/ pos_magic < 0
            THEN Pass(pos, count0, <<>>, "done")
            ELSE Synced(pos_magic, Slice(mm, pos_magic + 4, pos_magic + 8))
    IN  Found(FindMagic(mm, MAGIC_HDR_BYTES, pos, limit, FIND_CHUNK))

\* parse_rsd: if count % 250 == 0: _emit(count, f"Parsed {count} records")
NextgenRowProgress(n) == IF n % PROGRESS_EVERY = 0 THEN <<PercentOfCount(n)>> ELSE <<>>

\* parse_rsd consuming the generator: every record yielded is written as a
\* row (count += 1) and reported every 250 rows before the generator is
\* resumed; when the generator ends, count is returned
NextgenStep(mm, limit_records, hook, s) ==
    LET After(o) ==
            [cur |-> o.cur,
             count |-> o.count,
             recs |-> s.recs \o o.yield,
             nrows |-> s.nrows + Len(o.yield),
             pc |-> o.pc,
             ret |-> IF o.pc = "done" THEN s.nrows + Len(o.yield) ELSE s.ret,
             calls |-> s.calls \o Emit(hook, IF o.yield # <<>>
                                             THEN NextgenRowProgress(s.nrows + 1) \o o.emits
                                             ELSE o.emits)]
    IN  CHOOSE t \in {After(o) : o \in {NextgenPass(mm, s.cur, s.count, limit_records)}} :
            TRUE

NextgenIter ==
    /\ engine = "nextgen" /\ pc = "run"
    /\ \E t \in {NextgenStep(rsd, cap, hooks.progress,
                              [cur |-> cur, count |-> count, recs |-> recs,
                               nrows |-> nrows, pc |-> pc, ret |-> ret,
                               calls |-> calls])} :
          /\ cur' = t.cur
          /\ count' = t.count
          /\ recs' = t.recs
          /\ nrows' = t.nrows
          /\ pc' = t.pc
          /\ ret' = t.ret
          /\ calls' = t.calls
    /\ UNCHANGED <<rsd, engine, crcMode, scanStep, cap, hooks, last, cancelled,
                   codecVars, vsVars, auxVars>>

\* up to k passes in a row, stopping when the loop is left
RECURSIVE NextgenSteps(_, _, _, _, _)
NextgenSteps(mm, limit_records, hook, s, k) ==
    IF k = 0 \/ s.pc # "run" THEN s
    ELSE CHOOSE r \in {NextgenSteps(mm, limit_records, hook, t, k - 1) :
                          t \in {NextgenStep(mm, limit_records, hook, s)}} : TRUE

\* passes taken to the end of the run, PassBlock at a time (each pass moves
\* the cursor on by at least the 4 bytes of a magic)
RECURSIVE NextgenRun(_, _, _, _, _)
NextgenRun(mm, limit_records, hook, s, blocks) ==
    IF blocks = 0 \/ s.pc # "run" THEN s
    ELSE CHOOSE r \in {NextgenRun(mm, limit_records, hook, t, blocks - 1) :
                          t \in {NextgenSteps(mm, limit_records, hook, s, PassBlock)}} :
             TRUE

\* parse_rsd as one call: the generator consumed to its end
NextgenParse ==
    /\ engine = "nextgen" /\ pc = "run" /\ cur = 0 /\ count = 0
    /\ \E t \in {NextgenRun(rsd, cap, hooks.progress,
                             [cur |-> cur, count |-> count, recs |-> recs,
                              nrows |-> nrows, pc |-> pc, ret |-> ret,
                              calls |-> calls],
                             Len(rsd) \div (4 * PassBlock) + 1)} :
          /\ cur' = t.cur
          /\ count' = t.count
          /\ recs' = t.recs
          /\ nrows' = t.nrows
          /\ pc' = t.pc
          /\ ret' = t.ret
          /\ calls' = t.calls
    /\ UNCHANGED <<rsd, engine, crcMode, scanStep, cap, hooks, last, cancelled,
                   codecVars, vsVars, auxVars>>

(***************************************************************************)
(* rsd_core_crc_plus: its own checksum and varstruct decoder, and one pass *)
(* of the while loop of build_rows_and_assets.                             *)
(***************************************************************************)
\* crc = ((crc<<1)^poly)&0xFFFFFFFF if (crc & 0x80000000) else (crc<<1)&0xFFFFFFFF
PlusCrcStep(crc) ==
    IF crc[4] >= 128 THEN CrcShl1XorPoly(crc) ELSE CrcShl1(crc)

RECURSIVE PlusCrcSteps(_, _)
PlusCrcSteps(crc, k) ==
    IF k = 0 THEN crc
    ELSE CASE Ready(crc) -> PlusCrcSteps(PlusCrcStep(crc), k - 1)

RECURSIVE PlusCrcRange(_, _, _, _)
PlusCrcRange(data, lo, hi, crc) ==
    IF lo > hi THEN crc
    ELSE IF lo = hi THEN PlusCrcSteps(CrcXorByte(crc, data[lo]), 8)
    ELSE LET mid == lo + ((hi - lo + 1) \div 2)
             Rest(c) == CASE Ready(c) -> PlusCrcRange(data, mid, hi, c)
         IN  Rest(PlusCrcRange(data, lo, mid - 1, crc))

PlusCrcBytes(data, i, crc) ==
    CASE Ready(<<data, crc>>) -> PlusCrcRange(data, i, Len(data), crc)

\* rsd_core_crc_plus._crc32_custom
PlusCrc32Custom(data) ==
    WFromLE(CrcFinalXor(BitReverse(Zero32, PlusCrcBytes(data, 1, Zero32), 32)))

PlusMAGIC_REC_HDR_LE == <<134, 218, 233, 183>>      \* 0xB7E9DA86 .to_bytes(4, "little")
PlusMAGIC_REC_TRL_LE == <<188, 172, 142, 249>>      \* 0xF98EACBC .to_bytes(4, "little")
PAD_SKIP == TRUE
SCAN_STEP_DEFAULT == 1

\* if n < 0 or n > 20000: raise
PlusFieldCountBad(n) == WIsNeg(n) \/ WGtInt(n, 20000)

\* for _ in range(n): the passes from the k-th (k fields done) on
PlusParseFields(mv, pos, limit, k, n, fields, decl, hi) ==
    \* st: the loop's variables after st.nkeys passes; kr: the key read
    \* (key, pos); lr: the value length and the position after it
    LET fn(kr) == WInt(WLow(WShr(kr.val, 3), 30))
        lc(kr) == WInt(WLow(kr.val, 3))
        vlen(lr) == WInt(lr.val)
        endv(lr) == lr.pos + vlen(lr)
        Sized(st, kr, lr) ==
            IF ~lr.ok THEN VsFail(lr.err, Max(st.hi, lr.pos), TRUE, n, st.nkeys + 1)
            ELSE IF WIsNeg(lr.val) \/ WGtInt(lr.val, limit - lr.pos)
            THEN VsFail("Value exceeds buffer", Max(st.hi, lr.pos), TRUE, n, st.nkeys + 1)
            ELSE [st EXCEPT !.pos = endv(lr), !.nkeys = st.nkeys + 1,
                            !.fields = MapPut(st.fields, fn(kr), Slice(mv, lr.pos, endv(lr))),
                            !.decl = MapPut(st.decl, fn(kr), vlen(lr)),
                            !.hi = Max(Max(st.hi, lr.pos), Min(endv(lr), Len(mv)))]
        Keyed(st, kr) ==
            IF ~kr.ok THEN VsFail(kr.err, Max(st.hi, kr.pos), TRUE, n, st.nkeys)
            ELSE Sized(st, kr, IF lc(kr) = 7 THEN PlusReadVaruintFrom(mv, kr.pos, limit)
                               ELSE VarOk(W(lc(kr)), W(lc(kr)), kr.pos))
        RECURSIVE Passes(_)
        Passes(st) ==
            IF ~st.ok \/ ~WGtInt(n, st.nkeys) THEN st
            ELSE CASE Ready(st) -> Passes(Keyed(st, PlusReadVaruintFrom(mv, st.pos, limit)))
    IN  Passes([ok |-> TRUE, err |-> "", fields |-> fields, pos |-> pos, hi |-> hi,
                nread |-> TRUE, n |-> n, nkeys |-> k, decl |-> decl, crcOk |-> FALSE])

\* rsd_core_crc_plus._parse_varstruct(mv, pos, limit, crc_mode)
PlusParseVarstruct(mv, pos, limit, crc_mode) ==
    LET start == pos
        \* crc_read vs crc_calc = _crc32_custom(mv[start:pos])
        Checked(fr, crc_read, crc_calc) ==
            IF crc_mode = "strict" /\ crc_calc # crc_read
            THEN VsFail("CRC mismatch", Max(fr.hi, fr.pos + 4), TRUE, fr.n, fr.nkeys)
            ELSE [fr EXCEPT !.pos = fr.pos + 4, !.hi = Max(fr.hi, fr.pos + 4),
                            !.crcOk = (crc_calc = crc_read)]
        \* after the field loop
        Parsed(fr) ==
            IF ~fr.ok THEN fr
            ELSE IF fr.pos + 4 > limit
            THEN VsFail("Truncated before CRC", fr.hi, TRUE, fr.n, fr.nkeys)
            ELSE IF Len(Slice(mv, fr.pos, fr.pos + 4)) # 4
            THEN VsFail("struct.error", Max(fr.hi, Len(mv)), TRUE, fr.n, fr.nkeys)
            ELSE Checked(fr, WFromLE(Slice(mv, fr.pos, fr.pos + 4)),
                         PlusCrc32Custom(Slice(mv, start, fr.pos)))
        \* after n, pos = _read_varuint_from(mv, pos, limit)
        Counted(cr) ==
            IF ~cr.ok THEN VsFail(cr.err, cr.pos, FALSE, W(0), 0)
            ELSE IF PlusFieldCountBad(cr.val)
            THEN VsFail("Unreasonable field count", cr.pos, TRUE, cr.val, 0)
            ELSE Parsed(PlusParseFields(mv, cr.pos, limit, 0, cr.val, EmptyMap, EmptyMap,
                                        cr.pos))
    IN  Counted(PlusReadVaruintFrom(mv, pos, limit))

\* _u32 / _u16 / _i32: the value when enough bytes are present, else 0
PlusU32(bs) == IF Len(bs) >= 4 THEN WFromLE(Slice(bs, 0, 4)) ELSE W(0)
PlusU16(bs) == IF Len(bs) >= 2 THEN FromLE(Slice(bs, 0, 2)) ELSE 0
PlusI32(bs) == IF Len(bs) >= 4 THEN WSigned32(Slice(bs, 0, 4)) ELSE W(0)

\* while pos_end + 1 < size: skip 0xA1 0xB2 / 0xB2 0xA1 pairs
RECURSIVE PlusSkipPad(_, _)
PlusSkipPad(mv, pos_end) ==
    IF pos_end + 1 < Len(mv)
       /\ \/ (At(mv, pos_end) = 161 /\ At(mv, pos_end + 1) = 178)
          \/ (At(mv, pos_end) = 178 /\ At(mv, pos_end + 1) = 161)
    THEN PlusSkipPad(mv, pos_end + 2)
    ELSE pos_end

\* the scan position after an appended record
PlusNextPos(mv, body_start, data_size) ==
    LET size == Len(mv)
        e0 == body_start + Max(0, data_size)
        e1 == IF e0 + 4 <= size /\ Slice(mv, e0, e0 + 4) = PlusMAGIC_REC_TRL_LE
              THEN e0 + 4 ELSE e0
    IN  IF PAD_SKIP THEN PlusSkipPad(mv, e1) ELSE e1

PlusRecord(rec_start, h, bres, body_start) ==
    LET hdr == h.fields
        body == IF bres.ok THEN bres.fields ELSE EmptyMap
        dep == PlusReadVarintFrom(body[1], 0, Len(body[1]))
    IN  [ofs |-> rec_start,
         seq |-> PlusU32(MapGet(hdr, 2, <<>>)),
         time_ms |-> PlusU32(MapGet(hdr, 5, <<>>)),
         data_size |-> PlusU16(MapGet(hdr, 4, <<>>)),
         lat |-> IF 9 \in DOMAIN body THEN Some(PlusI32(body[9])) ELSE None,
         lon |-> IF 10 \in DOMAIN body THEN Some(PlusI32(body[10])) ELSE None,
         depth_mm |-> IF 1 \in DOMAIN body /\ Len(body[1]) > 0 /\ dep.ok
                      THEN Some(dep.val) ELSE None,
         body_start |-> body_start,
         hdrCrcOk |-> h.crcOk, bodyCrcOk |-> bres.ok /\ bres.crcOk]

\* rsd_core_crc_plus.build_rows_and_assets: one pass of `while i <= end`
PlusPass(mv, i, crc_mode, scan_step) ==
    LET size == Len(mv)
        end == size - 4
        data_size(h) == PlusU16(MapGet(h.fields, 4, <<>>))
        \* recs.append(...); i = pos_end
        BodyParsed(h, bres) ==
            Pass(PlusNextPos(mv, h.pos, data_size(h)), 0,
                 <<PlusRecord(i, h, bres, h.pos)>>, "run")
        \* body_start = the position the header parse returned
        HeaderParsed(h) ==
            IF ~h.ok
            THEN \* except Exception: i += SCAN_STEP
                 Pass(i + scan_step, 0, <<>>, "run")
            ELSE BodyParsed(h, PlusParseVarstruct(mv, h.pos, size, crc_mode))
    IN  IF ~(i <= end)
        THEN Pass(i, 0, <<>>, "done")
        ELSE IF Slice(mv, i, i + 4) # PlusMAGIC_REC_HDR_LE
        THEN Pass(i + scan_step, 0, <<>>, "run")
        ELSE HeaderParsed(PlusParseVarstruct(mv, i + 4, size, crc_mode))

\* _cancelled(): bool(_cancel_hook and _cancel_hook()), called outside any
\* try block: without a hook it is false, an installed hook answers either
\* way, and a hook that raises lets its exception through
CancelAnswers(hook) ==
    CASE hook = "none" -> {"false"}
      [] hook = "polled" -> {"false", "true"}
      [] hook = "raises" -> {"raise"}

NeverCancelled(answer) == FALSE

\* if _cancelled(): break
Cancelled(answer) == answer = "true"

\* pct = int((i/max(1,size))*100)
PlusPct(i, size) == (i * 100) \div Max(1, size)

\* one pass of `while i <= end` with its cancel poll and progress report;
\* when the loop is left the rows are written and {"rows": len(recs)} returned
PlusIter ==
    /\ engine = "crc_plus" /\ pc = "run"
    /\ \E answer \in CancelAnswers(hooks.cancel) :
         IF cur <= Len(rsd) - 4 /\ answer = "raise"
         THEN \* the hook's exception leaves build_rows_and_assets
              /\ pc' = "raised"
              /\ UNCHANGED <<cur, recs, nrows, ret, calls, last, cancelled>>
         ELSE IF cur <= Len(rsd) - 4 /\ Cancelled(answer)
         THEN \* break
              /\ pc' = "done"
              /\ cancelled' = (answer = "true")
              /\ nrows' = Len(recs)
              /\ ret' = Len(recs)
              /\ UNCHANGED <<cur, recs, calls, last>>
         ELSE \E o \in {PlusPass(rsd, cur, crcMode, scanStep)} :
              /\ cur' = o.cur
              /\ recs' = recs \o o.yield
              /\ pc' = o.pc
              /\ nrows' = IF o.pc = "done" THEN Len(recs) ELSE nrows
              /\ ret' = IF o.pc = "done" THEN Len(recs) ELSE ret
              /\ calls' = IF cur <= Len(rsd) - 4 /\ PlusPct(cur, Len(rsd)) # last
                          THEN calls \o Emit(hooks.progress,
                                             <<Percent(PlusPct(cur, Len(rsd)), 100)>>)
                          ELSE calls
              /\ last' = IF cur <= Len(rsd) - 4 THEN PlusPct(cur, Len(rsd)) ELSE last
              /\ cancelled' = (cur <= Len(rsd) - 4 /\ answer = "true")
    /\ UNCHANGED <<count, rsd, engine, crcMode, scanStep, cap, hooks,
                   codecVars, vsVars, auxVars>>

(***************************************************************************)
(* Inputs of the bounded checks.                                           *)
(***************************************************************************)
\* all sequences over S of length 0..n
RECURSIVE SeqsUpTo(_, _)
SeqsUpTo(S, n) ==
    IF n = 0 THEN {<<>>}
    ELSE LET T == SeqsUpTo(S, n - 1)
         IN  T \cup {<<x>> \o t : x \in S, t \in {u \in T : Len(u) = n - 1}}

\* bytes that tell the readers apart: a terminator, a terminator with more
\* than 4 payload bits, a continuation without payload
VarAlphabet == {1, 16, 128}

\* minimal LEB128 encoding of a wide integer u >= 0
RECURSIVE Leb128(_)
Leb128(u) ==
    IF WBelowPow2(u, 7) THEN <<WInt(WLow(u, 7))>>
    ELSE <<128 + WInt(WLow(u, 7))>> \o Leb128(WShr(u, 7))

\* zig-zag encoding of a signed 32-bit value: (v << 1) ^ (v >> 31), 32 bits
ZigzagEnc(v) == WLow(WXor(WShl(v, 1), WShr(v, 31)), 32)

AllOnes == WNot(W(0))

U32Samples ==
    {WShl(W(1), k) : k \in 0..31} \cup {WLow(AllOnes, k) : k \in 0..32}
    \cup {WFromLE(<<239, 190, 173, 222>>), WFromLE(<<134, 218, 233, 183>>), W(300)}

I32Samples ==
    LET P == {u \in U32Samples : WBelowPow2(u, 31)}
    IN  P \cup {WNeg(u) : u \in P} \cup {WNeg(WShl(W(1), 31))}

U32Encoded == {<<u, Leb128(u)>> : u \in U32Samples}
I32Encoded == {<<v, Leb128(ZigzagEnc(v))>> : v \in I32Samples}

CodecBufs ==
    SeqsUpTo(VarAlphabet, MaxVarLen)
    \cup {<<255, 255, 255, 255, 255, 1>>, <<255, 255, 255, 255, 127>>,
          <<255, 255, 255, 255, 255, 255, 1>>}
    \cup {pad \o e[2] \o tail : e \in U32Encoded \cup I32Encoded,
                                pad \in {<<>>, <<255>>}, tail \in {<<>>, <<1>>}}

(***************************************************************************)
(* Specification of the varint readers: one call on an arbitrary input.    *)
(***************************************************************************)
NoVarRes == [fn |-> "none", r |-> VarErr("", 0)]
NoVsRes == [mode |-> "none", r |-> VsFail("", 0, FALSE, W(0), 0)]

IdleCodec == vbuf = <<>> /\ vpos = 0 /\ vlimit = 0 /\ vres = NoVarRes
IdleVs == sbuf = <<>> /\ spos = 0 /\ slimit = 0 /\ sres = NoVsRes
IdleCrc == cbuf = <<>> /\ cres = [core |-> None, plus |-> None]
NoFindArgs == [mm |-> <<>>, magic |-> <<>>, start |-> 0, end |-> 0, chunk |-> 1]
IdleFind == fargs = NoFindArgs /\ fres = None
IdleOrch == main = [pc |-> "idle"] /\ worker = "none" /\ queue = <<>>
IdleSig == sigData = <<>> /\ sig = [pc |-> "idle"]
\* set_progress_hook / set_cancel_hook never called: both hooks are None
NoHooks == [progress |-> "none", cancel |-> "none"]

IdleAux == IdleCrc /\ IdleFind /\ IdleOrch /\ IdleSig
IdleEng ==
    /\ rsd = <<>> /\ engine = "none" /\ crcMode = "warn" /\ scanStep = 1 /\ cap = 0
    /\ cur = 0 /\ count = 0 /\ recs = <<>> /\ nrows = 0 /\ ret = -1 /\ pc = "done"
    /\ hooks = NoHooks /\ calls = <<>> /\ last = -1 /\ cancelled = FALSE

InitCodec ==
    /\ vbuf \in CodecBufs
    /\ vpos \in {p \in {0, 1} : p <= Len(vbuf)}
    /\ vlimit \in {l \in {Len(vbuf) - 1, Len(vbuf)} : l >= vpos}
    /\ vres = NoVarRes
    /\ IdleVs /\ IdleEng /\ IdleAux

\* core_shared._read_varuint_from(mm, pos, limit)
CallReadVaruint ==
    /\ vres = NoVarRes
    /\ vres' = [fn |-> "read_varuint", r |-> ReadVaruintFrom(vbuf, vpos, vlimit)]
    /\ UNCHANGED <<vbuf, vpos, vlimit, vsVars, engVars, auxVars>>

\* core_shared._read_varint_from(buf, pos, limit), buf being the segment that
\* starts at pos
CallReadVarint ==
    /\ vres = NoVarRes
    /\ vres' = [fn |-> "read_varint",
                r |-> ReadVarintFrom(Slice(vbuf, vpos, Len(vbuf)), vpos, vlimit)]
    /\ UNCHANGED <<vbuf, vpos, vlimit, vsVars, engVars, auxVars>>

\* rsd_core_crc_plus._read_varuint_from(mv, pos, limit)
CallPlusReadVaruint ==
    /\ vres = NoVarRes
    /\ vres' = [fn |-> "plus_read_varuint", r |-> PlusReadVaruintFrom(vbuf, vpos, vlimit)]
    /\ UNCHANGED <<vbuf, vpos, vlimit, vsVars, engVars, auxVars>>

\* rsd_core_crc_plus._read_varint_from(mv, pos, limit)
CallPlusReadVarint ==
    /\ vres = NoVarRes
    /\ vres' = [fn |-> "plus_read_varint", r |-> PlusReadVarintFrom(vbuf, vpos, vlimit)]
    /\ UNCHANGED <<vbuf, vpos, vlimit, vsVars, engVars, auxVars>>

NextCodec == CallReadVaruint \/ CallReadVarint \/ CallPlusReadVaruint \/ CallPlusReadVarint

SpecCodec == InitCodec /\ [][NextCodec]_vars

(***************************************************************************)
(* Specification of the varstruct decoder: one call, in either crc_mode,   *)
(* on an arbitrary input.                                                  *)
(***************************************************************************)
\* count / key / value bytes: 0, 1 and 2 (counts, keys of field 0 with a
\* literal length), 15 (field 1, length code 7), 128 (a continuation byte)
VsAlphabet == {0, 1, 2, 15, 128}

\* count 50 and count 51, each followed by that many empty fields
VsLongBodies == {<<50>> \o [i \in 1..50 |-> 0], <<51>> \o [i \in 1..51 |-> 0]}

VsContents ==
    {m \o b : m \in {<<>>, MAGIC_HDR_BYTES},
              b \in SeqsUpTo(VsAlphabet, MaxBodyLen) \cup VsLongBodies}

\* what follows the content: nothing, its checksum, or its checksum with
\* the low bit of the first byte flipped
CrcTail(c, kind) ==
    LET Chosen(good) ==
            IF kind = "none" THEN <<>>
            ELSE IF kind = "good" THEN good
            ELSE <<(IF good[1] % 2 = 0 THEN good[1] + 1 ELSE good[1] - 1)>> \o Tail(good)
    IN  Chosen(WToLE(Crc32Custom(c), 4))

InitVs ==
    /\ \E pad \in {<<>>, <<9>>}, c \in VsContents, kind \in {"none", "good", "bad"},
          trail \in {<<>>, <<9>>} :
          /\ sbuf = pad \o c \o CrcTail(c, kind) \o trail
          /\ spos = Len(pad)
    /\ slimit \in {l \in {Len(sbuf) - 1, Len(sbuf)} : l >= spos}
    /\ sres = NoVsRes
    /\ IdleCodec /\ IdleEng /\ IdleAux

\* core_shared._parse_varstruct(mm, pos, limit, crc_mode='strict')
CallParseStrict ==
    /\ sres = NoVsRes
    /\ sres' = [mode |-> "strict", r |-> ParseVarstruct(sbuf, spos, slimit, "strict")]
    /\ UNCHANGED <<sbuf, spos, slimit, codecVars, engVars, auxVars>>

\* core_shared._parse_varstruct(mm, pos, limit, crc_mode='warn')
CallParseWarn ==
    /\ sres = NoVsRes
    /\ sres' = [mode |-> "warn", r |-> ParseVarstruct(sbuf, spos, slimit, "warn")]
    /\ UNCHANGED <<sbuf, spos, slimit, codecVars, engVars, auxVars>>

NextVs == CallParseStrict \/ CallParseWarn

SpecVs == InitVs /\ [][NextVs]_vars

(***************************************************************************)
(* Files of the engine runs: records and garbage laid end to end.          *)
(***************************************************************************)
\* a field list <<fn, bytes>>, ... as varstruct content: count, then key
\* (field_id << 3 | length, a varuint) and value of each field
RECURSIVE EncFields(_)
EncFields(fs) ==
    IF fs = <<>> THEN <<>>
    ELSE LET key == fs[1][1] * 8 + Len(fs[1][2])
         IN  (IF key < 128 THEN <<key>> ELSE <<128 + (key % 128), key \div 128>>)
                 \o fs[1][2] \o EncFields(Tail(fs))

VsContent(fs) == <<Len(fs)>> \o EncFields(fs)

WithCrc(c, good) == c \o CrcTail(c, IF good THEN "good" ELSE "bad")

TRL_BYTES == <<124, 75, 38, 217>>           \* 0xD9264B7C, core_shared
PLUS_TRL_BYTES == <<188, 172, 142, 249>>    \* 0xF98EACBC, rsd_core_crc_plus

\* header fields: magic, sequence number, declared body size
HdrFields(seqBytes, size) ==
    << <<0, MAGIC_HDR_BYTES>>, <<2, seqBytes>>, <<4, <<size % 256, size \div 256>>>> >>

\* body fields: depth (zig-zag varint, mm), latitude and longitude (map units)
BodyFields ==
    << <<1, <<6>>>>, <<9, <<0, 0, 164, 31>>>>, <<10, <<0, 0, 142, 195>>>> >>

\* the body fields with the latitude bytes 00 00 00 60 (0x60000000 map units)
FarNorthBodyFields ==
    << <<1, <<6>>>>, <<9, <<0, 0, 0, 96>>>>, <<10, <<0, 0, 142, 195>>>> >>

\* the body fields and field 17 = 07 00: the tolerant engine's sample count
SampledBodyFields == BodyFields \o << <<17, <<7, 0>>>> >>

\* the body fields and field 17 = ff ff: the largest 16-bit sample count
ManySamplesBodyFields == BodyFields \o << <<17, <<255, 255>>>> >>

\* the body fields and a pitch in the strict engine's layout: field 12, a
\* signed 16-bit integer
PitchBodyFields == BodyFields \o << <<12, <<10, 0>>>> >>

\* a body that holds, from its byte 2 on, the bytes of a trailer: field 9 is
\* the trailer magic, and the key byte 19 of field 2 with its three zero
\* bytes reads as the chunk size 19
OverlongBodyFields == << <<9, TRL_BYTES>>, <<2, <<0, 0, 0>>>> >>

\* header, body, payload up to the declared size, 12-byte trailer
MkRecordOf(hfs, hgood, bfs, bgood, size, trl, chunk) ==
    LET hdr == WithCrc(MAGIC_HDR_BYTES \o VsContent(hfs), hgood)
        payload(body) == [i \in 1..(size - Len(body)) |-> 85]
        Laid(body) ==
            hdr \o body \o payload(body) \o trl \o <<chunk % 256, chunk \div 256, 0, 0>>
                \o ZEROS4
    IN  Laid(WithCrc(VsContent(bfs), bgood))

MkRecord(hfs, hgood, bgood, size, trl, chunk) ==
    MkRecordOf(hfs, hgood, BodyFields, bgood, size, trl, chunk)

\* length of a record with a 4-byte sequence field and a 32-byte body
REC_LEN == Len(MkRecord(HdrFields(<<0, 0, 0, 0>>, 32), TRUE, TRUE, 32, ZEROS4, 0))

SEQ1 == <<1, 0, 0, 0>>
SEQ2 == <<2, 0, 0, 0>>

\* V, V2: well-formed records (valid CRCs, matching trailer, chunk size = the
\* record's length); HB, BB: header / body CRC wrong; SS: 2-byte sequence
\* field; TL: last byte missing; TM: foreign trailer magic; CS: chunk size 1;
\* BS: declared data size far beyond the file; G: magic bytes amid garbage;
\* DS: declared data size 20; NS, ES, S1: data-size field absent, empty, one
\* byte long; LB: well-formed, latitude field 0x60000000; SC: well-formed,
\* its body also carrying field 17 = 7; P: well-formed, its body also carrying a 2-byte pitch; PH: P
\* with the header CRC wrong; OB: declared data size 2, the 14-byte body
\* running over it and holding a trailer at its byte 2; CZ: chunk size 0;
\* SM: well-formed, its body also carrying field 17 = 65535

Segments ==
    LET Rec(hfs, hgood, bgood, size, trl, chunk) == MkRecord(hfs, hgood, bgood, size, trl, chunk)
        Of(len) ==
            [V  |-> Rec(HdrFields(SEQ1, 32), TRUE, TRUE, 32, TRL_BYTES, len),
             V2 |-> Rec(HdrFields(SEQ2, 34), TRUE, TRUE, 34, TRL_BYTES, len + 2),
             BS |-> Rec(HdrFields(SEQ1, 999), TRUE, TRUE, 32, TRL_BYTES, len),
             HB |-> Rec(HdrFields(SEQ1, 32), FALSE, TRUE, 32, TRL_BYTES, len),
             BB |-> Rec(HdrFields(SEQ1, 32), TRUE, FALSE, 32, TRL_BYTES, len),
             SS |-> Rec(HdrFields(<<1, 0>>, 32), TRUE, TRUE, 32, TRL_BYTES, len - 2),
             TL |-> SubSeq(Rec(HdrFields(SEQ1, 32), TRUE, TRUE, 32, TRL_BYTES, len),
                           1, len - 1),
             TM |-> Rec(HdrFields(SEQ1, 32), TRUE, TRUE, 32, PLUS_TRL_BYTES, len),
             CS |-> Rec(HdrFields(SEQ1, 32), TRUE, TRUE, 32, TRL_BYTES, 1),
             CZ |-> Rec(HdrFields(SEQ1, 32), TRUE, TRUE, 32, TRL_BYTES, 0),
             DS |-> Rec(HdrFields(SEQ1, 20), TRUE, TRUE, 20, TRL_BYTES, len - 12),
             NS |-> Rec(<< <<0, MAGIC_HDR_BYTES>>, <<2, SEQ1>> >>, TRUE, TRUE, 32,
                        TRL_BYTES, len - 3),
             ES |-> Rec(<< <<0, MAGIC_HDR_BYTES>>, <<2, SEQ1>>, <<4, <<>>>> >>, TRUE, TRUE,
                        32, TRL_BYTES, len - 2),
             S1 |-> Rec(<< <<0, MAGIC_HDR_BYTES>>, <<2, SEQ1>>, <<4, <<32>>>> >>, TRUE, TRUE,
                        32, TRL_BYTES, len - 1),
             LB |-> MkRecordOf(HdrFields(SEQ1, 32), TRUE, FarNorthBodyFields, TRUE, 32,
                               TRL_BYTES, len),
             SC |-> MkRecordOf(HdrFields(SEQ1, 32), TRUE, SampledBodyFields, TRUE, 32,
                               TRL_BYTES, len),
             SM |-> MkRecordOf(HdrFields(SEQ1, 32), TRUE, ManySamplesBodyFields, TRUE, 32,
                               TRL_BYTES, len),
             P  |-> MkRecordOf(HdrFields(SEQ1, 32), TRUE, PitchBodyFields, TRUE, 32,
                               TRL_BYTES, len),
             PH |-> MkRecordOf(HdrFields(SEQ1, 32), FALSE, PitchBodyFields, TRUE, 32,
                               TRL_BYTES, len),
             OB |-> MkRecordOf(HdrFields(SEQ1, 2), TRUE, OverlongBodyFields, TRUE, 2,
                               TRL_BYTES, len),
             G  |-> <<7>> \o MAGIC_HDR_BYTES \o <<0, 161, 178>>]
    IN  Of(REC_LEN)

SegNames == DOMAIN Segments

RECURSIVE Concat(_)
Concat(names) == IF names = <<>> THEN <<>> ELSE Segments[names[1]] \o Concat(Tail(names))

\* mmap refuses an empty file, so a run starts on at least one segment
Layouts == SeqsUpTo(SegNames, MaxSegs) \ {<<>>}

(***************************************************************************)
(* Specification of the engines: one run of one engine over one file.      *)
(***************************************************************************)
Init ==
    /\ \E layout \in Layouts : rsd = Concat(layout)
    /\ engine \in {"classic", "nextgen", "crc_plus"}
    /\ crcMode \in (IF engine = "crc_plus" THEN {"warn", "strict"} ELSE {"warn"})
    /\ scanStep = SCAN_STEP_DEFAULT
    /\ cap \in (IF engine = "crc_plus" THEN {0} ELSE 0..MaxCap)
    /\ cur = 0 /\ count = 0 /\ recs = <<>> /\ nrows = 0 /\ ret = -1 /\ pc = "run"
    /\ hooks = NoHooks /\ calls = <<>> /\ last = -1 /\ cancelled = FALSE
    /\ IdleCodec /\ IdleVs /\ IdleAux

Next == ClassicIter \/ NextgenIter \/ PlusIter

Spec == Init /\ [][Next]_vars

(***************************************************************************)
(* Properties of the engines.                                              *)
(***************************************************************************)
\* the crc_mode that one_test.main and the desktop app hand to the strict
\* pass: cfg = dict(CRC_MODE='warn')
ORCHESTRATOR_CRC_MODE == "warn"

\* C1: in the record stream of each of the three engines, every record's
\* offset is strictly greater than the offset of the record before it, so no
\* offset is emitted twice.
C1_OffsetsIncrease ==
    \A i \in 1..(Len(recs) - 1) : recs[i].ofs < recs[i + 1].ofs

\* C1, its case: the strict engine has yielded a second record
C1_Witness == engine = "classic" /\ Len(recs) >= 2 /\ recs[2].ofs > recs[1].ofs

C1_WitnessNextgen == engine = "nextgen" /\ Len(recs) >= 2
C1_WitnessPlus == engine = "crc_plus" /\ Len(recs) >= 2

\* C2: the strict engine stops scanning only when no header magic remains in
\* [pos, limit) or when the record cap has been reached.
C2_StopsOnlyAtEndOrCap ==
    (engine = "classic" /\ pc = "done")
        => \/ BytesFind(rsd, MAGIC_HDR_BYTES, cur, Len(rsd)) = -1
           \/ ClassicCapReached(cap, count)

\* C3: no per-record decoding failure leaves the record iteration of the
\* strict or of the tolerant engine as an exception.
C3_NoFailureEscapes ==
    engine \in {"classic", "nextgen"} => pc # "raised"

\* C3 for the tolerant engine alone
C3_TolerantNoEscape == engine = "nextgen" => pc # "raised"

\* a file of n well-formed records laid back to back
WellFormedFiles(n) == {Concat(l) : l \in [1..n -> {"V", "V2"}]}

\* header offsets of the records of a file made of well-formed records
RECURSIVE HeaderOffsets(_, _)
HeaderOffsets(mm, at) ==
    IF at >= Len(mm) THEN <<>>
    ELSE LET len == IF Slice(mm, at + 11, at + 15) = SEQ2 THEN REC_LEN + 2 ELSE REC_LEN
         IN  <<at>> \o HeaderOffsets(mm, at + len)

\* C4: on a file made only of N well-formed records, the strict engine's
\* parse_rsd (called without a record cap) writes exactly N rows, one per
\* record header offset in file order, and returns N.
C4_AllRowsEmitted ==
    \A n \in 1..MaxSegs :
        (engine = "classic" /\ cap = 0 /\ pc = "done" /\ rsd \in WellFormedFiles(n))
            => /\ ret = n
               /\ nrows = n
               /\ [i \in 1..Len(recs) |-> recs[i].ofs] = HeaderOffsets(rsd, 0)

\* C4, its case: parse_rsd has returned from a file of MaxSegs well-formed
\* records of both shapes
C4_Witness ==
    /\ engine = "classic" /\ cap = 0 /\ pc = "done"
    /\ rsd \in WellFormedFiles(MaxSegs)
    /\ ret = MaxSegs
    /\ \E i \in 1..Len(recs) : recs[i].seq = WFromLE(SEQ2)

\* C5: no strict pass emits a record whose header or body checksum differs
\* from the stored one: neither the strict engine nor the strict pass as the
\* orchestrators launch it.
C5_StrictPassesRejectBadCrc ==
    (engine = "classic" \/ (engine = "crc_plus" /\ crcMode = ORCHESTRATOR_CRC_MODE))
        => \A i \in 1..Len(recs) : recs[i].hdrCrcOk /\ recs[i].bodyCrcOk

\* C5 for the strict engine alone
C5_ClassicRejectsBadCrc ==
    engine = "classic" => \A i \in 1..Len(recs) : recs[i].hdrCrcOk /\ recs[i].bodyCrcOk

(***************************************************************************)
(* Properties of the codec.                                                *)
(***************************************************************************)
\* the byte the call reads at offset k from its start position
VByte(k) == At(vbuf, vpos + k)

\* bytes vpos .. vpos+k-1 lie below the limit and all carry bit 7
AllContinue(k) == vpos + k <= vlimit /\ \A j \in 0..(k - 1) : VByte(j) >= 128

\* C9: every varint reader consumes at most 5 bytes and returns only
\* unsigned values <= 2^32 - 1 (before zig-zag); an encoding that needs a
\* sixth byte or whose fifth byte carries more than 4 payload bits is an
\* error; a buffer that ends at limit before a terminating byte is an error.
C9_ReadersBounded ==
    vres.fn # "none" =>
        /\ vres.r.ok => /\ vres.r.pos - vpos <= 5
                        /\ ~WIsNeg(vres.r.u)
                        /\ WBelowPow2(vres.r.u, 32)
        /\ AllContinue(5) => ~vres.r.ok
        /\ (AllContinue(4) /\ vpos + 5 <= vlimit /\ VByte(4) % 128 > 15) => ~vres.r.ok
        /\ AllContinue(vlimit - vpos) => ~vres.r.ok

\* the call read the encoding enc at vpos, wholly below the limit
ReadsEncoding(enc) ==
    /\ vpos + Len(enc) <= vlimit
    /\ Slice(vbuf, vpos, vpos + Len(enc)) = enc

\* C10: reading the minimal LEB128 encoding of an unsigned 32-bit v with a
\* varuint reader returns (v, pos + encoded length); reading the LEB128
\* encoding of zigzag(v), v signed 32-bit, with a varint reader returns v.
C10_RoundTrip ==
    /\ vres.fn \in {"read_varuint", "plus_read_varuint"} =>
          \A e \in U32Encoded :
              ReadsEncoding(e[2]) =>
                  /\ vres.r.ok
                  /\ vres.r.val = e[1]
                  /\ vres.r.pos = vpos + Len(e[2])
    /\ vres.fn \in {"read_varint", "plus_read_varint"} =>
          \A e \in I32Encoded :
              ReadsEncoding(e[2]) =>
                  /\ vres.r.ok
                  /\ vres.r.val = e[1]
                  /\ vres.r.pos = vpos + Len(e[2])

\* core_shared's varint reader has decoded the encoding of -2^31 (5 bytes)
C10_Witness ==
    /\ vres.fn = "read_varint"
    /\ vres.r.ok
    /\ vres.r.val = WNeg(WShl(W(1), 31))
    /\ vres.r.pos - vpos = 5

\* core_shared's varuint reader has decoded the encoding of 2^32 - 1
C10_WitnessUnsigned ==
    /\ vres.fn = "read_varuint"
    /\ vres.r.ok
    /\ vres.r.val = WLow(AllOnes, 32)
    /\ vres.r.pos - vpos = 5

(***************************************************************************)
(* Properties of the varstruct decoder.                                    *)
(***************************************************************************)
\* C6: _parse_varstruct never reads a byte at an index >= limit; on
\* success the returned position is just past the 4-byte CRC and <= limit,
\* and every stored field value has exactly its declared length.
C6_ParseWithinLimit ==
    sres.mode # "none" =>
        /\ sres.r.hi <= slimit
        /\ sres.r.ok =>
              /\ sres.r.pos <= slimit
              /\ sres.r.pos - 4 >= spos
              /\ sres.r.crcOk =
                    (WFromLE(Slice(sbuf, sres.r.pos - 4, sres.r.pos))
                       = Crc32Custom(Slice(sbuf, spos, sres.r.pos - 4)))
              /\ DOMAIN sres.r.decl = DOMAIN sres.r.fields
              /\ \A fn \in DOMAIN sres.r.fields :
                    Len(sres.r.fields[fn]) = sres.r.decl[fn]

\* a successful parse that stored a non-empty field and ended exactly at the
\* limit, with a byte of the buffer lying beyond the limit
C6_Witness ==
    /\ sres.mode # "none"
    /\ sres.r.ok
    /\ slimit < Len(sbuf)
    /\ sres.r.pos = slimit
    /\ \E fn \in DOMAIN sres.r.fields : Len(sres.r.fields[fn]) >= 1

\* C7: an input whose field count is outside [0, 50] is rejected with an
\* error in both crc modes, and no field is decoded after such a count.
C7_CountRejected ==
    (sres.mode # "none" /\ sres.r.nread /\ FieldCountBad(sres.r.n)) =>
        ~sres.r.ok /\ sres.r.nkeys = 0

\* the outcome, in warn mode, of the same call on the same bytes carrying
\* the correct checksum at the position where the checksum was read
WithCorrectCrc(r) ==
    LET at == r.pos - 4
        fixed == Slice(sbuf, 0, at)
                 \o WToLE(Crc32Custom(Slice(sbuf, spos, at)), 4)
                 \o Slice(sbuf, r.pos, Len(sbuf))
    IN  ParseVarstruct(fixed, spos, slimit, "warn")

\* C8: on a structurally valid input whose stored CRC differs from the
\* computed one, strict mode fails; warn mode succeeds with the field map
\* and end position it returns for the same bytes with the correct CRC.
C8_CrcModes ==
    LET w == ParseVarstruct(sbuf, spos, slimit, "warn")
        c == WithCorrectCrc(w)
    IN  (sres.mode # "none" /\ w.ok /\ ~w.crcOk) =>
            /\ sres.mode = "strict" => ~sres.r.ok
            /\ sres.mode = "warn" =>
                  /\ sres.r.ok
                  /\ c.ok
                  /\ c.crcOk
                  /\ sres.r.fields = c.fields
                  /\ sres.r.pos = c.pos

\* strict mode has rejected a structurally valid input with a leading magic
\* and a stored field, over a wrong stored CRC
C8_Witness ==
    /\ sres.mode = "strict"
    /\ ~sres.r.ok
    /\ sres.r.err = "CRC mismatch"
    /\ sres.r.nkeys >= 1
    /\ Slice(sbuf, spos, spos + 4) = MAGIC_HDR_BYTES

(***************************************************************************)
(* Specification of the checksum: one byte string handed to                *)
(* core_shared._crc32_custom and to rsd_core_crc_plus._crc32_custom.       *)
(***************************************************************************)
\* bytes 0x00 and 0xFF, a low bit, a high bit, and the first magic byte
CrcAlphabet == {0, 1, 128, 134, 255}

CrcInputs == SeqsUpTo(CrcAlphabet, MaxCrcLen)

InitCrc ==
    /\ cbuf \in CrcInputs
    /\ cres = [core |-> None, plus |-> None]
    /\ IdleCodec /\ IdleVs /\ IdleEng /\ IdleFind /\ IdleOrch /\ IdleSig

\* core_shared._crc32_custom(data)
CallCrc32Custom ==
    /\ cres.core = None
    /\ cres' = [cres EXCEPT !.core = Some(Crc32Custom(cbuf))]
    /\ UNCHANGED <<cbuf, codecVars, vsVars, engVars, sigVars, findVars, orchVars>>

\* rsd_core_crc_plus._crc32_custom(data)
CallPlusCrc32Custom ==
    /\ cres.plus = None
    /\ cres' = [cres EXCEPT !.plus = Some(PlusCrc32Custom(cbuf))]
    /\ UNCHANGED <<cbuf, codecVars, vsVars, engVars, sigVars, findVars, orchVars>>

NextCrc == CallCrc32Custom \/ CallPlusCrc32Custom

SpecCrc == InitCrc /\ [][NextCrc]_vars

(***************************************************************************)
(* The checksum as a polynomial remainder over GF(2): the message bits,    *)
(* most significant bit of each byte first, times x^32, divided by         *)
(* x^32 + 0x04C11DB7.                                                      *)
(***************************************************************************)
\* the bits of data, most significant first, followed by 32 zero bits
Dividend(data) ==
    SubSeq([i \in 1..(8 * Len(data) + 32) |->
               IF i <= 8 * Len(data)
               THEN (data[((i - 1) \div 8) + 1] \div Pow2(7 - ((i - 1) % 8))) % 2
               ELSE 0],
           1, 8 * Len(data) + 32)

\* x^32 + poly, most significant bit first (33 bits)
Generator == SubSeq([j \in 1..33 |-> IF j = 1 THEN 1 ELSE PolyW[34 - j]], 1, 33)

\* d with the generator subtracted (xor) at bit i
SubtractAt(d, i) ==
    SubSeq([j \in 1..Len(d) |->
               IF j >= i /\ j <= i + 32 THEN (d[j] + Generator[j - i + 1]) % 2 ELSE d[j]],
           1, Len(d))

\* long division from bit i on, n message bits
RECURSIVE PolyDivide(_, _, _)
PolyDivide(d, i, n) ==
    IF i > n THEN d
    ELSE CASE Ready(d) -> PolyDivide(IF d[i] = 1 THEN SubtractAt(d, i) ELSE d, i + 1, n)

\* R: the last 32 bits left by the division, most significant first
Remainder(data) ==
    LET Last32(d) == SubSeq(d, Len(d) - 31, Len(d))
    IN  Last32(PolyDivide(Dividend(data), 1, 8 * Len(data)))

\* bitreverse32(R) XOR 0xFFFFFFFF: bit i - 1 of the result is the complement
\* of bit 32 - i of R
CrcReference(data) ==
    LET Out(r) == Vec([i \in 1..WBits |-> IF i <= 32 THEN 1 - r[i] ELSE 0])
    IN  Out(Remainder(data))

\* 0xFFFFFFFF
ALL_ONES_32 == WLow(AllOnes, 32)

\* C11: for every byte string the two _crc32_custom return the same value,
\* it lies in 0..2^32-1 and equals bitreverse32(R) XOR 0xFFFFFFFF, R being the
\* remainder of the MSB-first CRC with polynomial 0x04C11DB7 and zero initial
\* accumulator; the empty string and the single byte 0x00 give 0xFFFFFFFF.
C11_CrcAgree ==
    /\ \A f \in {"core", "plus"} :
          cres[f] # None =>
              /\ cres[f][1] = CrcReference(cbuf)
              /\ ~WIsNeg(cres[f][1]) /\ WBelowPow2(cres[f][1], 32)
              /\ (cbuf \in {<<>>, <<0>>} => cres[f][1] = ALL_ONES_32)
    /\ (cres.core # None /\ cres.plus # None) => cres.core = cres.plus

\* both checksums taken of a string of two or more bytes, the value not trivial
C11_Witness ==
    /\ Len(cbuf) >= 2 /\ cres.core # None /\ cres.plus # None
    /\ cres.core[1] # ALL_ONES_32 /\ cres.core[1] # W(0)

\* both checksums taken of the empty string
C11_WitnessEmpty == cbuf = <<>> /\ cres.core = Some(ALL_ONES_32) /\ cres.plus = Some(ALL_ONES_32)

(***************************************************************************)
(* Specification of the magic scanner: one call of core_shared.find_magic. *)
(***************************************************************************)
\* n filler bytes; the filler is the first byte of the header magic, so that
\* a filler run followed by the magic holds near misses
Filler(n) == [i \in 1..n |-> 134]

\* buffers with no, one or two occurrences of the pattern
FindBufs ==
    {Filler(a) \o p \o Filler(b) \o q \o Filler(c) :
        a \in 0..MaxFindPad, b \in 0..MaxFindPad, c \in 0..MaxFindPad,
        p \in {<<>>, MAGIC_HDR_BYTES}, q \in {<<>>, MAGIC_HDR_BYTES}}

\* chunk sizes: as long as the pattern, a little longer, and the default
FindChunks == {4, 5, 6, FIND_CHUNK}

InitFind ==
    /\ \E mm \in FindBufs, start \in {-1, 0, 1, 2}, e \in {-1, 0, 1},
          chunk \in FindChunks :
          fargs = [mm |-> mm, magic |-> MAGIC_HDR_BYTES, start |-> start,
                   end |-> Len(mm) + e, chunk |-> chunk]
    /\ fres = None
    /\ IdleCodec /\ IdleVs /\ IdleEng /\ IdleCrc /\ IdleOrch /\ IdleSig

\* core_shared.find_magic(mm, magic_bytes, start, end, chunk)
CallFindMagic ==
    /\ fres = None
    /\ fres' = Some(FindMagic(fargs.mm, fargs.magic, fargs.start, fargs.end, fargs.chunk))
    /\ UNCHANGED <<fargs, codecVars, vsVars, engVars, sigVars, crcVars, orchVars>>

NextFind == CallFindMagic

SpecFind == InitFind /\ [][NextFind]_vars

\* the pattern occurs in mm at offset o
OccursAt(mm, pat, o) ==
    o >= 0 /\ o + Len(pat) <= Len(mm) /\ SubSeq(mm, o + 1, o + Len(pat)) = pat

\* the smallest offset o with start <= o and o + len(pat) <= end at which the
\* pattern occurs, or -1
FirstOccurrence(mm, pat, start, end) ==
    LET hits == {o \in start..(end - Len(pat)) : OccursAt(mm, pat, o)}
    IN  IF hits = {} THEN -1 ELSE CHOOSE o \in hits : \A x \in hits : o <= x

\* C12: find_magic returns the smallest offset o with start <= o and
\* o + 4 <= end at which the pattern occurs, also when the 4 bytes straddle a
\* chunk boundary, and -1 when there is none.
C12_FindsFirst ==
    fres # None =>
        fres[1] = FirstOccurrence(fargs.mm, fargs.magic, fargs.start, fargs.end)

\* the same for a range that fits one chunk (end - start <= chunk after the
\* clamping of start and end)
C12_FindsFirstInOneChunk ==
    (fres # None /\ Min(Len(fargs.mm), fargs.end) - Max(0, fargs.start) <= fargs.chunk) =>
        fres[1] = FirstOccurrence(fargs.mm, fargs.magic, fargs.start, fargs.end)

\* a call that returned -1 although the pattern occurs in the range
C12_Missed ==
    /\ fres = Some(-1)
    /\ FirstOccurrence(fargs.mm, fargs.magic, fargs.start, fargs.end) >= 0

(***************************************************************************)
(* Orchestrator: one_test.main with run_strict_with_timeout and its worker *)
(* process, and the background thread of App._run.                         *)
(*                                                                         *)
(* main.mode: "auto" / "force" (one_test without / with --force-heuristic),*)
(* "Auto (Adaptive)" / "Strict" / "Fast Track (heuristic)" (the app).      *)
(* The strict pass and the heuristic pass are taken by what they report:   *)
(* a summary with rows = len(recs), an exception, and a point count.       *)
(***************************************************************************)
\* build_rows_and_assets: return {"rows": len(recs), "rows_ss": 0, "rows_dv": 0, ...}
StrictSummary(n) == [rows |-> n, rows_ss |-> 0, rows_dv |-> 0]

\* what the worker puts, and what run_strict_with_timeout returns
WorkerOk(summary) == [ok |-> TRUE, summary |-> summary]
WorkerError(e) == [ok |-> FALSE, err |-> e]
TIMED_OUT == [ok |-> FALSE, timeout |-> TRUE]
NO_RESULT == [ok |-> FALSE, err |-> "no result"]

\* the test reversed: escalation at yield 10 and above
HeuristicNeededAbove(force, rows_total) == force \/ rows_total >= 10

\* if args.force_heuristic or rows_total < 10  /  if rows_total < 10
HeuristicNeeded(force, rows_total) == force \/ rows_total < 10

\* a run_strict_with_timeout that reads the queue whether or not the worker
\* is still alive
StrictOutcomeIgnoringAlive(alive, q) == IF q # <<>> THEN Head(q) ELSE NO_RESULT

\* a run_strict_with_timeout that never reads the queue
StrictOutcomeWithoutQueue(alive, q) == IF alive THEN TIMED_OUT ELSE NO_RESULT

\* if p.is_alive(): ... return {"ok": False, "timeout": True}
\* return q.get() if not q.empty() else {"ok": False, "err": "no result"}
StrictOutcome(alive, q) ==
    IF alive THEN TIMED_OUT ELSE IF q # <<>> THEN Head(q) ELSE NO_RESULT

\* rows_total after the strict stage: the sum of the three counts of an ok
\* result, else the initial 0
RowsAfterStrict(res) ==
    IF res.ok THEN res.summary.rows + res.summary.rows_ss + res.summary.rows_dv ELSE 0

OneTestModes == {"auto", "force"}
AppModes == {"Auto (Adaptive)", "Strict", "Fast Track (heuristic)"}

MainStart(mode) ==
    [pc |-> "start", mode |-> mode, alive |-> FALSE, res |-> None, rows_total |-> 0,
     strict_summary |-> None, points |-> None, reported |-> -1]

InitOrch ==
    /\ \E mode \in OneTestModes \cup AppModes : main = MainStart(mode)
    /\ worker = "none" /\ queue = <<>>
    /\ IdleCodec /\ IdleVs /\ IdleEng /\ IdleCrc /\ IdleFind /\ IdleSig

\* one_test.main, line 48 with --force-heuristic: the strict stage is skipped
MainSkipStrict ==
    /\ main.pc = "start" /\ main.mode = "force"
    /\ main' = [main EXCEPT !.pc = "strict_done"]
    /\ UNCHANGED <<worker, queue, codecVars, vsVars, engVars, sigVars, crcVars, findVars>>

\* run_strict_with_timeout: q = Queue(); p = Process(...); p.start(); then
\* p.join(timeout_s) waits
StartWorker ==
    /\ main.pc = "start" /\ main.mode = "auto"
    /\ main' = [main EXCEPT !.pc = "join"]
    /\ worker' = "running" /\ queue' = <<>>
    /\ UNCHANGED <<codecVars, vsVars, engVars, sigVars, crcVars, findVars>>

\* _run_strict_worker: build_rows_and_assets returned; q.put({"ok": True, ...})
WorkerPutSummary ==
    /\ worker = "running"
    /\ \E n \in 0..MaxRows : queue' = Append(queue, WorkerOk(StrictSummary(n)))
    /\ worker' = "put"
    /\ UNCHANGED <<main, codecVars, vsVars, engVars, sigVars, crcVars, findVars>>

\* _run_strict_worker: except Exception as e: q.put({"ok": False, "err": str(e)})
WorkerPutError ==
    /\ worker = "running"
    /\ queue' = Append(queue, WorkerError("error"))
    /\ worker' = "put"
    /\ UNCHANGED <<main, codecVars, vsVars, engVars, sigVars, crcVars, findVars>>

\* the worker process ends: after its put, or without one (killed from
\* outside, or an error that is not an Exception)
WorkerExit ==
    /\ worker \in {"running", "put"}
    /\ worker' = "exited"
    /\ UNCHANGED <<main, queue, codecVars, vsVars, engVars, sigVars, crcVars, findVars>>

\* p.join(timeout_s) returns, the worker having exited or the timeout
\* having expired; then p.is_alive() is read
JoinReturns ==
    /\ main.pc = "join"
    /\ main' = [main EXCEPT !.pc = IF worker # "exited" THEN "terminate" ELSE "get",
                            !.alive = (worker # "exited")]
    /\ UNCHANGED <<worker, queue, codecVars, vsVars, engVars, sigVars, crcVars, findVars>>

\* p.terminate(); p.join(5); return {"ok": False, "timeout": True}
TerminateWorker ==
    /\ main.pc = "terminate"
    /\ worker' = IF worker = "exited" THEN "exited" ELSE "terminated"
    /\ main' = [main EXCEPT !.pc = "returned", !.res = Some(StrictOutcome(TRUE, queue))]
    /\ UNCHANGED <<queue, codecVars, vsVars, engVars, sigVars, crcVars, findVars>>

\* return q.get() if not q.empty() else {"ok": False, "err": "no result"}
GetResult ==
    /\ main.pc = "get"
    /\ main' = [main EXCEPT !.pc = "returned", !.res = Some(StrictOutcome(FALSE, queue))]
    /\ queue' = IF queue # <<>> THEN Tail(queue) ELSE queue
    /\ UNCHANGED <<worker, codecVars, vsVars, engVars, sigVars, crcVars, findVars>>

\* one_test.main, lines 51-55: if res.get("ok"): strict_summary = ...;
\* rows_total = rows + rows_ss + rows_dv
MainTakeStrict ==
    /\ main.pc = "returned"
    /\ main' = [main EXCEPT !.pc = "strict_done",
                            !.strict_summary = IF main.res[1].ok THEN Some(main.res[1].summary)
                                               ELSE None,
                            !.rows_total = RowsAfterStrict(main.res[1])]
    /\ UNCHANGED <<worker, queue, codecVars, vsVars, engVars, sigVars, crcVars, findVars>>

\* one_test.main, lines 57-64: the heuristic stage and the summary written
MainFinish ==
    /\ main.pc = "strict_done"
    /\ \E pts \in 0..MaxPoints :
          main' = IF HeuristicNeeded(main.mode = "force", main.rows_total)
                  THEN [main EXCEPT !.pc = "done", !.points = Some(pts),
                                    !.rows_total = Max(main.rows_total, pts),
                                    !.reported = Max(main.rows_total, pts)]
                  ELSE [main EXCEPT !.pc = "done", !.reported = main.rows_total]
    /\ UNCHANGED <<worker, queue, codecVars, vsVars, engVars, sigVars, crcVars, findVars>>

\* App._run.bg: the strict stage in-process (a summary, or an exception that
\* leaves rows_total = 0), then the heuristic stage, then "Rows/points"
AppRun ==
    /\ main.pc = "start" /\ main.mode \in AppModes
    /\ \E res \in {WorkerOk(StrictSummary(n)) : n \in 0..MaxRows} \cup {WorkerError("error")},
          pts \in 0..MaxPoints :
          LET strict == main.mode \in {"Auto (Adaptive)", "Strict"}
              heur == main.mode \in {"Auto (Adaptive)", "Fast Track (heuristic)"}
              rows == IF strict THEN RowsAfterStrict(res) ELSE 0
              runs == heur /\ HeuristicNeeded(FALSE, rows)
          IN  main' = [main EXCEPT !.pc = "done",
                                  !.res = IF strict THEN Some(res) ELSE None,
                                  !.strict_summary = IF strict /\ res.ok THEN Some(res.summary)
                                                     ELSE None,
                                  !.points = IF runs THEN Some(pts) ELSE None,
                                  !.rows_total = IF runs THEN Max(rows, pts) ELSE rows,
                                  !.reported = IF runs THEN Max(rows, pts) ELSE rows]
    /\ UNCHANGED <<worker, queue, codecVars, vsVars, engVars, sigVars, crcVars, findVars>>

NextOrch ==
    \/ MainSkipStrict \/ StartWorker \/ WorkerPutSummary \/ WorkerPutError \/ WorkerExit
    \/ JoinReturns \/ TerminateWorker \/ GetResult \/ MainTakeStrict \/ MainFinish
    \/ AppRun

SpecOrch == InitOrch /\ [][NextOrch]_vars

(***************************************************************************)
(* Properties of the orchestrator.                                         *)
(***************************************************************************)
\* the strict yield rows + rows_ss + rows_dv of the strict outcome; a strict
\* pass that failed, timed out or was not run yields 0
StrictYield ==
    IF main.res # None /\ main.res[1].ok
    THEN main.res[1].summary.rows + main.res[1].summary.rows_ss + main.res[1].summary.rows_dv
    ELSE 0

HeuristicRan == main.points # None

AutoCascade == main.mode \in {"auto", "Auto (Adaptive)"}

\* C13: in the automatic cascade the heuristic engine is run if and only if
\* the strict yield is below 10; when it runs the reported total is the larger
\* of the strict yield and the heuristic point count, otherwise it is the
\* strict yield.
C13_EscalatesBelowTen ==
    (main.pc = "done" /\ AutoCascade) =>
        /\ HeuristicRan <=> StrictYield < 10
        /\ main.reported = IF HeuristicRan THEN Max(StrictYield, main.points[1])
                           ELSE StrictYield

\* one_test at yield 9: the heuristic engine ran and its count is reported
C13_Witness ==
    /\ main.pc = "done" /\ main.mode = "auto" /\ StrictYield = 9
    /\ HeuristicRan /\ main.points[1] > 9 /\ main.reported = main.points[1]

\* the app at yield 10: no heuristic pass
C13_WitnessTen ==
    /\ main.pc = "done" /\ main.mode = "Auto (Adaptive)" /\ StrictYield = 10
    /\ ~HeuristicRan /\ main.reported = 10

\* C14: a worker that has not finished when the timeout expires is
\* terminated and the outcome is the timed-out one, distinct from a worker
\* error and from "no result"; main then counts a strict yield of 0, keeps an
\* empty strict summary and runs the heuristic engine, so the timed-out pass
\* contributes no rows.
C14_TimeoutYieldsNothing ==
    /\ \A e \in {"error", "no result"} : TIMED_OUT # WorkerError(e)
    /\ TIMED_OUT # NO_RESULT
    /\ (main.pc \in {"returned", "strict_done", "done"} /\ main.mode = "auto" /\ main.alive) =>
           /\ main.res = Some(TIMED_OUT)
           /\ worker \in {"terminated", "exited"}
    /\ (main.pc \in {"strict_done", "done"} /\ main.mode = "auto" /\ main.alive) =>
           main.strict_summary = None
    /\ (main.pc = "strict_done" /\ main.mode = "auto" /\ main.alive) => main.rows_total = 0
    /\ (main.pc = "done" /\ main.mode = "auto" /\ main.alive) =>
           /\ HeuristicRan
           /\ main.reported = main.points[1]

\* the timeout expired after the worker had put a summary of 11 rows and
\* before it exited: the worker was terminated, the run reports the
\* heuristic count alone
C14_Witness ==
    /\ main.pc = "done" /\ main.alive /\ worker = "terminated"
    /\ queue = <<WorkerOk(StrictSummary(11))>>
    /\ main.res = Some(TIMED_OUT) /\ main.reported = 3

(***************************************************************************)
(* The strict and the tolerant engine on a record and on the same record   *)
(* with a corrupted checksum.                                              *)
(***************************************************************************)
\* engine_classic_varstruct._iter_records run to its end, without a cap:
\* the records it yields
RECURSIVE ClassicRecords(_, _, _)
ClassicRecords(mm, pos, n) ==
    LET After(o) ==
            IF o.pc = "run" THEN o.yield \o ClassicRecords(mm, o.cur, o.count)
            ELSE o.yield
    IN  After(ClassicPass(mm, pos, n, 0))

\* the segment a corrupted segment was made from
Uncorrupted == [HB |-> "V", BB |-> "V", PH |-> "P"]

\* the file offset at which segment i of a layout starts
SegmentOffset(l, i) == Len(Concat(SubSeq(l, 1, i - 1)))

\* the strict engine, run on mm, yields a record at offset o whose declared
\* data size is plausible
StrictEmitsAt(mm, o) ==
    LET Among(rs) ==
            \E k \in 1..Len(rs) :
                rs[k].ofs = o /\ rs[k].data_size >= 32 /\ rs[k].data_size <= 65535
    IN  Among(ClassicRecords(mm, 0, 0))

\* C15: for every record that the strict engine emits when its checksums
\* are correct and whose declared data_size is in [32, 65535], the tolerant
\* engine emits a record at the same header offset when the header CRC or
\* the body CRC of that record is corrupted, while the strict engine emits
\* none at that offset.
C15_TolerantAcceptsCorrupted ==
    (pc = "done" /\ cap = 0 /\ engine \in {"classic", "nextgen"}) =>
        \A l \in Layouts :
            Concat(l) = rsd =>
                \A i \in 1..Len(l) :
                    (/\ l[i] \in DOMAIN Uncorrupted
                     /\ StrictEmitsAt(Concat([l EXCEPT ![i] = Uncorrupted[l[i]]]),
                                      SegmentOffset(l, i)))
                        => /\ engine = "nextgen" =>
                                \E j \in 1..Len(recs) : recs[j].ofs = SegmentOffset(l, i)
                           /\ engine = "classic" =>
                                \A j \in 1..Len(recs) : recs[j].ofs # SegmentOffset(l, i)

\* C15 on records whose body carries only fields that both engines read
\* with the same sizes
C15_OnSharedFields ==
    (pc = "done" /\ cap = 0 /\ engine \in {"classic", "nextgen"}) =>
        \A l \in Layouts :
            Concat(l) = rsd =>
                \A i \in 1..Len(l) :
                    (/\ l[i] \in {"HB", "BB"}
                     /\ StrictEmitsAt(Concat([l EXCEPT ![i] = Uncorrupted[l[i]]]),
                                      SegmentOffset(l, i)))
                        => /\ engine = "nextgen" =>
                                \E j \in 1..Len(recs) : recs[j].ofs = SegmentOffset(l, i)
                           /\ engine = "classic" =>
                                \A j \in 1..Len(recs) : recs[j].ofs # SegmentOffset(l, i)

\* the tolerant engine has finished a file that is one record with a 2-byte
\* pitch and a corrupted header CRC, and has emitted nothing
C15_Rejected ==
    /\ engine = "nextgen" /\ pc = "done" /\ cap = 0
    /\ rsd = Segments["PH"]
    /\ recs = <<>>
    /\ StrictEmitsAt(Segments["P"], 0)

(***************************************************************************)
(* The tolerant engine's gate on the declared data size.                   *)
(***************************************************************************)
\* the header found at offset o of the file, as the tolerant engine decodes it
HeaderAt(o) == ParseVarstruct(rsd, o, Len(rsd), "warn")

\* the header's data-size field is present and holds the two bytes of a
\* little-endian unsigned 16-bit value, which is v
DeclaresSize(h, v) ==
    /\ h.ok
    /\ 4 \in DOMAIN h.fields
    /\ Len(h.fields[4]) >= 2
    /\ FromLE(Slice(h.fields[4], 0, 2)) = v

\* C16: every record emitted by the tolerant engine has a declared data_size
\* with 32 <= data_size <= 65535; a header whose data-size field (field 4) is
\* absent, empty or too short to decode is rejected and yields no record.
C16_DataSizeGate ==
    engine = "nextgen" =>
        \A j \in 1..Len(recs) :
            /\ 32 <= recs[j].data_size /\ recs[j].data_size <= 65535
            /\ DeclaresSize(HeaderAt(recs[j].ofs), recs[j].data_size)

\* C16, its case: the tolerant engine has finished a file of two records,
\* the first with its data-size field absent, empty, one byte long or
\* declaring 20 bytes, and has emitted the second record only
C16_WitnessOf(name) ==
    /\ engine = "nextgen" /\ pc = "done" /\ cap = 0
    /\ rsd = Concat(<<name, "V2">>)
    /\ ~DeclaresSize(HeaderAt(0), 32)
    /\ Len(recs) = 1
    /\ recs[1].ofs = Len(Segments[name]) /\ recs[1].data_size = 34

C16_Witness == C16_WitnessOf("NS")
C16_WitnessEmpty == C16_WitnessOf("ES")
C16_WitnessShort == C16_WitnessOf("S1")
C16_WitnessSmall ==
    /\ engine = "nextgen" /\ pc = "done" /\ cap = 0
    /\ rsd = Concat(<<"DS", "V2">>)
    /\ DeclaresSize(HeaderAt(0), 20)
    /\ Len(recs) = 1 /\ recs[1].ofs = Len(Segments["DS"])

(***************************************************************************)
(* Coordinates of the records of the engines that decode map units.        *)
(***************************************************************************)
\* |a| of a wide integer
WAbs(a) == IF WIsNeg(a) THEN WNeg(a) ELSE a

\* |raw| <= 2^k
WithinPow2(raw, k) == WBelowPow2(WAbs(raw), k) \/ WAbs(raw) = WShl(W(1), k)

\* core_shared._mapunit_to_deg(raw) = raw * 360 / 2^32 lies in [-90, 90]
\* exactly when |raw| <= 2^30, and in [-180, 180] exactly when |raw| <= 2^31
LatitudeInRange(raw) == WithinPow2(raw, 30)
LongitudeInRange(raw) == WithinPow2(raw, 31)

\* C17: for every record emitted by a structured engine that decodes
\* coordinates from signed 32-bit map units (strict engine,
\* rsd_core_crc_plus), a present latitude lies in [-90, 90] and a present
\* longitude lies in [-180, 180], where degrees = raw * 360 / 2^32; in
\* integer terms a present latitude has |raw| <= 2^30.
C17_CoordinatesInRange ==
    engine \in {"classic", "crc_plus"} =>
        \A j \in 1..Len(recs) :
            /\ recs[j].lat # None => LatitudeInRange(recs[j].lat[1])
            /\ recs[j].lon # None => LongitudeInRange(recs[j].lon[1])

\* C17 for the longitude alone
C17_LongitudeInRange ==
    engine \in {"classic", "crc_plus"} =>
        \A j \in 1..Len(recs) :
            recs[j].lon # None => LongitudeInRange(recs[j].lon[1])

\* the strict engine has emitted a record whose latitude is 0x60000000 map
\* units, 135 degrees
C17_FarNorth ==
    /\ engine = "classic"
    /\ rsd = Segments["LB"]
    /\ Len(recs) = 1
    /\ recs[1].lat = Some(WShl(W(3), 29))

C17_FarNorthPlus ==
    /\ engine = "crc_plus"
    /\ rsd = Segments["LB"]
    /\ Len(recs) = 1
    /\ recs[1].lat = Some(WShl(W(3), 29))

(***************************************************************************)
(* Byte ranges of the emitted records.                                     *)
(***************************************************************************)
\* C18: for every record emitted by the strict engine or the tolerant
\* engine in which sonar_ofs and sonar_size are both non-null,
\* sonar_ofs + sonar_size <= file size.
C18_SonarRangeInFile ==
    /\ engine = "classic" =>
          \A j \in 1..Len(recs) :
              (recs[j].sonar_ofs # None /\ recs[j].sonar_size # None)
                  => recs[j].sonar_ofs[1] + recs[j].sonar_size[1] <= Len(rsd)
    /\ engine = "nextgen" =>
          \A j \in 1..Len(recs) :
              recs[j].sonar_ofs + recs[j].sonar_size <= Len(rsd)

\* C18, its case: the tolerant engine has emitted the last record of a file,
\* with 7 samples, whose sonar range ends 12 bytes before the end of the file
C18_Witness ==
    /\ engine = "nextgen" /\ pc = "done"
    /\ rsd = Concat(<<"V", "SC">>)
    /\ Len(recs) = 2
    /\ recs[2].sample_cnt = 7 /\ recs[2].sonar_size = 14
    /\ recs[2].sonar_ofs + recs[2].sonar_size = Len(rsd) - 12

\* the strict engine has emitted a record with a sonar range, which ends at
\* the record's trailer
C18_WitnessStrict ==
    /\ engine = "classic" /\ pc = "done"
    /\ rsd = Segments["V"]
    /\ Len(recs) = 1
    /\ recs[1].sonar_ofs # None /\ recs[1].sonar_size # None
    /\ recs[1].sonar_ofs[1] + recs[1].sonar_size[1] = Len(rsd) - 12

\* C19: no structured engine (strict, tolerant,
\* rsd_core_crc_plus.build_rows_and_assets) emits a record whose declared
\* body range [body_start, body_start + data_size) extends past the end of
\* the file.
C19_BodyRangeInFile ==
    \A j \in 1..Len(recs) : recs[j].body_start + recs[j].data_size <= Len(rsd)

\* C19 for the strict and the tolerant engine
C19_StrictAndTolerant ==
    engine \in {"classic", "nextgen"} =>
        \A j \in 1..Len(recs) : recs[j].body_start + recs[j].data_size <= Len(rsd)

\* rsd_core_crc_plus has emitted the record of a file whose only header
\* declares 999 body bytes
C19_PastEnd ==
    /\ engine = "crc_plus"
    /\ rsd = Segments["BS"]
    /\ Len(recs) = 1
    /\ recs[1].data_size = 999
    /\ recs[1].body_start + recs[1].data_size > Len(rsd)

(***************************************************************************)
(* Heuristic engine: rsd_core_signature.parse_file.                        *)
(***************************************************************************)
SIG_SKIP == 64      \* a = h + 64
SIG_SPAN == 512     \* b = min(len(data), h + 512)
SIG_STRIDE == 4     \* i += 4
LAT_MIN == 30
LAT_MAX == 60
LON_MIN == 0 - 110
LON_MAX == 0 - 50

\* struct.unpack_from("<i", data, i)[0]
I32At(buf, i) ==
    LET low == At(buf, i) + 256 * At(buf, i + 1) + 65536 * At(buf, i + 2)
                   + 16777216 * (At(buf, i + 3) % 128)
    IN  IF At(buf, i + 3) >= 128 THEN (low - 2147483647) - 1 ELSE low

\* _mapunit_to_deg(x) = x * (360 / 2^32) = x * 45 / 2^29, which the float
\* arithmetic computes exactly for 32-bit x; kept as <<q, r>> with
\* x * 45 = q * 65536 + r and 0 <= r < 65536
MapunitToDeg(x) ==
    LET hi == x \div 65536
        lo == x % 65536
    IN  <<hi * 45 + ((lo * 45) \div 65536), (lo * 45) % 65536>>

\* d <= deg and deg <= d for a whole number of degrees d (d * 2^29 = d * 8192 * 65536)
DegAtLeast(deg, d) == deg[1] >= d * 8192
DegAtMost(deg, d) == deg[1] < d * 8192 \/ (deg[1] = d * 8192 /\ deg[2] = 0)

\* if 30.0<=lat<=60.0 and -110.0<=lon<=-50.0
Plausible(lat_i, lon_i) ==
    /\ DegAtLeast(MapunitToDeg(lat_i), LAT_MIN) /\ DegAtMost(MapunitToDeg(lat_i), LAT_MAX)
    /\ DegAtLeast(MapunitToDeg(lon_i), LON_MIN) /\ DegAtMost(MapunitToDeg(lon_i), LON_MAX)

\* the inner loop, from i = a: `while i+8<=b` with i += 4, left at the first
\* plausible pair; what it appends to coords, in map units
SigScan(buf, a, b) ==
    LET stops == {i \in a..(b - 8) :
                     /\ (i - a) % SIG_STRIDE = 0
                     /\ Plausible(I32At(buf, i), I32At(buf, i + 4))}
        First(i) == << <<I32At(buf, i), I32At(buf, i + 4)>> >>
    IN  IF stops = {} THEN <<>>
        ELSE First(CHOOSE i \in stops : \A j \in stops : i <= j)

\* buffers: up to MaxLead bytes, a header magic, a gap, a latitude and a
\* longitude (44.49 and -85.0 degrees, or -85.0 and 44.49: not plausible),
\* a tail, and possibly a second header magic
SigGaps == {0, 4, 56, 59, 60, 61, 64, 442, 500, 504}
SigTails == {0, 3, 60}
LAT_BYTES == <<0, 0, 164, 31>>
LON_BYTES == <<0, 0, 142, 195>>

SigBuffers ==
    {Filler(lead) \o MAGIC_HDR_BYTES \o Filler(gap) \o pair \o Filler(tail) \o second :
        lead \in 0..MaxLead, gap \in SigGaps, tail \in SigTails,
        pair \in {LAT_BYTES \o LON_BYTES, LON_BYTES \o LAT_BYTES,
                  LAT_BYTES \o LON_BYTES \o LAT_BYTES \o LON_BYTES},
        second \in {<<>>, MAGIC_HDR_BYTES}}

InitSig ==
    /\ sigData \in SigBuffers
    /\ sig = [pc |-> "find", offs |-> <<>>, i |-> 0, coords |-> <<>>, hits |-> <<>>,
              pts |-> 0]
    /\ IdleCodec /\ IdleVs /\ IdleEng /\ IdleCrc /\ IdleFind /\ IdleOrch

\* j=data.find(MAGIC_REC_HDR_LE, i); if j==-1: break; offs.append(j); i=j+1
SigFind ==
    /\ sig.pc = "find"
    /\ \E j \in {BytesFind(sigData, MAGIC_HDR_BYTES, sig.i, Len(sigData))} :
          sig' = IF j = -1 THEN [sig EXCEPT !.pc = "scan"]
                 ELSE [sig EXCEPT !.offs = Append(@, j), !.i = j + 1]
    /\ UNCHANGED <<sigData, codecVars, vsVars, engVars, crcVars, findVars, orchVars>>

\* one pass of `for h in offs`; hits records what the pass appended
SigScanHeader ==
    /\ sig.pc = "scan"
    /\ Len(sig.hits) < Len(sig.offs)
    /\ \E h \in {sig.offs[Len(sig.hits) + 1]} :
       \E found \in {SigScan(sigData, h + SIG_SKIP, Min(Len(sigData), h + SIG_SPAN))} :
          sig' = [sig EXCEPT !.coords = @ \o found, !.pts = @ + Len(found),
                             !.hits = Append(@, found)]
    /\ UNCHANGED <<sigData, codecVars, vsVars, engVars, crcVars, findVars, orchVars>>

\* the file is written, one row per coordinate, and {"points": pts} returned
SigReturn ==
    /\ sig.pc = "scan"
    /\ Len(sig.hits) = Len(sig.offs)
    /\ sig' = [sig EXCEPT !.pc = "done"]
    /\ UNCHANGED <<sigData, codecVars, vsVars, engVars, crcVars, findVars, orchVars>>

NextSig == SigFind \/ SigScanHeader \/ SigReturn

SpecSig == InitSig /\ [][NextSig]_vars

\* a plausible pair starts at offset p of the buffer
PlausibleAt(p) ==
    /\ p >= 0 /\ p + 8 <= Len(sigData)
    /\ Plausible(I32At(sigData, p), I32At(sigData, p + 4))

PairAt(p) == <<I32At(sigData, p), I32At(sigData, p + 4)>>

\* C20: for every buffer that holds a header magic at offset h and, at some
\* offset within the 450 bytes that follow it, two consecutive little-endian
\* signed 32-bit map-unit values decoding to a latitude in [30, 60] and a
\* longitude in [-110, -50], with no other matching pair near that header,
\* the heuristic engine (rsd_core_signature.parse_file) outputs exactly that
\* coordinate for that header.
C20_FindsEmbeddedPair ==
    sig.pc = "done" =>
        \A k \in 1..Len(sig.offs) :
            \A p \in (sig.offs[k] + 4)..(sig.offs[k] + 4 + 450 - 8) :
                (/\ PlausibleAt(p)
                 /\ \A q \in (sig.offs[k] + 4)..(sig.offs[k] + SIG_SPAN) :
                        q # p => ~PlausibleAt(q))
                    => sig.hits[k] = <<PairAt(p)>>

\* C20 for the pairs that lie in the window the engine scans: a whole number
\* of 4-byte strides after h + 64, ending at or before h + 512
C20_FindsPairInWindow ==
    sig.pc = "done" =>
        \A k \in 1..Len(sig.offs) :
            \A p \in (sig.offs[k] + SIG_SKIP)..(sig.offs[k] + SIG_SPAN - 8) :
                (/\ (p - sig.offs[k]) % SIG_STRIDE = 0
                 /\ PlausibleAt(p)
                 /\ \A q \in (sig.offs[k] + 4)..(sig.offs[k] + SIG_SPAN) :
                        q # p => ~PlausibleAt(q))
                    => sig.hits[k] = <<PairAt(p)>>

\* the engine has returned without a point from a buffer that holds a
\* plausible pair right after its only header magic
C20_Missed ==
    /\ sig.pc = "done"
    /\ sig.offs = <<0>>
    /\ PlausibleAt(4)
    /\ sig.coords = <<>> /\ sig.pts = 0

\* the engine has returned the pair that starts 64 bytes after the header
C20_Found ==
    /\ sig.pc = "done"
    /\ sig.offs = <<0>>
    /\ PlausibleAt(64)
    /\ sig.coords = <<PairAt(64)>> /\ sig.pts = 1

(***************************************************************************)
(* The engines with hooks installed: the same three loops, started on a   *)
(* file with a progress hook and, for rsd_core_crc_plus, a cancel hook.    *)
(***************************************************************************)
\* a file of that many valid records laid end to end
LongRecords == PROGRESS_EVERY

\* n copies of seq laid end to end
RECURSIVE Repeat(_, _)
Repeat(seq, n) ==
    IF n = 0 THEN <<>>
    ELSE CHOOSE r \in {(IF n % 2 = 1 THEN seq ELSE <<>>) \o half \o half :
                          half \in {Repeat(seq, n \div 2)}} : TRUE

LongFile == Repeat(Segments["V"], LongRecords)

HookSegNames == {"V", "HB", "BB", "TM", "G"}

HookFiles == {Concat(l) : l \in SeqsUpTo(HookSegNames, MaxSegs) \ {<<>>}} \cup {LongFile}

\* a hook is absent ("none"), returns ("ok", "polled") or raises ("raises");
\* only rsd_core_crc_plus has a cancel hook; the long file is read with a
\* progress hook that returns
HookSettings(data, eng) ==
    IF data = LongFile
    THEN {[progress |-> "ok", cancel |-> "none"]}
    ELSE [progress : {"none", "ok", "raises"},
          cancel : IF eng = "crc_plus" THEN {"none", "polled", "raises"} ELSE {"none"}]

InitHooks ==
    /\ rsd \in HookFiles
    /\ engine \in {"classic", "nextgen", "crc_plus"}
    /\ crcMode \in (IF engine = "crc_plus" /\ rsd # LongFile
                    THEN {"warn", "strict"} ELSE {"warn"})
    /\ scanStep = SCAN_STEP_DEFAULT
    /\ cap \in (IF engine = "crc_plus" \/ rsd = LongFile THEN {0} ELSE 0..MaxCap)
    /\ cur = 0 /\ count = 0 /\ recs = <<>> /\ nrows = 0 /\ ret = -1 /\ pc = "run"
    /\ hooks \in HookSettings(rsd, engine)
    /\ calls = <<>> /\ last = -1 /\ cancelled = FALSE
    /\ IdleCodec /\ IdleVs /\ IdleAux

NextHooks == ClassicIter \/ NextgenIter \/ NextgenParse \/ PlusIter

SpecHooks == InitHooks /\ [][NextHooks]_vars

\* the percentage <<n, d>> lies in [0, 100]
PercentInRange(p) == 0 <= p[1] /\ p[1] <= p[2]

\* C21: every percentage handed to the progress hook by an engine lies in
\* [0, 100], whatever the file and however many records it holds
C21_PercentInRange == \A k \in DOMAIN calls : PercentInRange(calls[k])

\* C21, the engines apart from the row report of the tolerant parse_rsd:
\* every percentage the iterators and build_rows_and_assets hand over lies
\* in [0, 100]
C21_IteratorsInRange ==
    \A k \in DOMAIN calls :
        PercentInRange(calls[k]) \/ (engine = "nextgen" /\ calls[k] = PercentOfCount(nrows))

\* the tolerant parse_rsd has reported its 250th row
C21_Row250 ==
    /\ engine = "nextgen" /\ hooks.progress # "none"
    /\ nrows = PROGRESS_EVERY
    /\ \E k \in DOMAIN calls : calls[k] = PercentOfCount(PROGRESS_EVERY)

\* build_rows_and_assets with no hook installed: up to k passes in a row
RECURSIVE PlusSteps(_, _, _, _, _)
PlusSteps(mv, crc_mode, scan_step, s, k) ==
    IF k = 0 \/ s.pc # "run" THEN s
    ELSE CHOOSE r \in {PlusSteps(mv, crc_mode, scan_step,
                                  [cur |-> o.cur, recs |-> s.recs \o o.yield, pc |-> o.pc],
                                  k - 1) :
                          o \in {PlusPass(mv, s.cur, crc_mode, scan_step)}} : TRUE

\* ... and to the end of the scan (each pass moves i on by at least SCAN_STEP)
RECURSIVE PlusRun(_, _, _, _, _)
PlusRun(mv, crc_mode, scan_step, s, blocks) ==
    IF blocks = 0 \/ s.pc # "run" THEN s
    ELSE CHOOSE r \in {PlusRun(mv, crc_mode, scan_step, t, blocks - 1) :
                          t \in {PlusSteps(mv, crc_mode, scan_step, s, PassBlock)}} : TRUE

\* what the engine of the current run does on the current file when no hook
\* is installed
Hookless ==
    CASE engine = "crc_plus" ->
            LET q == PlusRun(rsd, crcMode, scanStep,
                             [cur |-> 0, recs |-> <<>>, pc |-> "run"],
                             Len(rsd) \div PassBlock + 2)
            IN  [pc |-> q.pc, recs |-> q.recs, nrows |-> Len(q.recs), ret |-> Len(q.recs)]
      [] engine = "nextgen" ->
            LET q == NextgenRun(rsd, cap, "none",
                                [cur |-> 0, count |-> 0, recs |-> <<>>, nrows |-> 0,
                                 pc |-> "run", ret |-> -1, calls |-> <<>>],
                                Len(rsd) \div (4 * PassBlock) + 1)
            IN  [pc |-> q.pc, recs |-> q.recs, nrows |-> q.nrows, ret |-> q.ret]
      [] engine = "classic" ->
            [pc |-> pc, recs |-> ClassicRecords(rsd, 0, 0), nrows |-> nrows, ret |-> ret]

SameAsHookless ==
    LET q == Hookless
    IN  pc = q.pc /\ recs = q.recs /\ nrows = q.nrows /\ ret = q.ret

\* C22: a hook that raises is a no-op: when a run with a raising progress
\* hook or a raising cancel hook has ended, it has emitted the records and
\* written the rows of the run with no hook installed, and has ended the
\* same way (no exception of the hook has left the engine)
C22_RaisingHooksAreNoOps ==
    (/\ pc # "run"
     /\ hooks.progress = "raises" \/ hooks.cancel = "raises"
     /\ engine = "classic" => cap = 0) => SameAsHookless

\* C22 for the progress hook alone: a raising progress hook changes nothing
C22_RaisingProgressIsNoOp ==
    (/\ pc # "run"
     /\ hooks.progress = "raises" /\ hooks.cancel = "none"
     /\ engine = "classic" => cap = 0) => SameAsHookless

\* the exception of a raising cancel hook has left build_rows_and_assets on a
\* file in which the scan with no hook finds a record
C22_CancelRaised ==
    /\ engine = "crc_plus" /\ hooks.cancel = "raises" /\ pc = "raised"
    /\ recs = <<>> /\ ret = -1
    /\ Hookless.pc = "done" /\ Hookless.ret > 0

\* a run with a raising progress hook has ended with records emitted
C22_ProgressRaised ==
    /\ hooks.progress = "raises" /\ Len(calls) > 0
    /\ pc = "done" /\ Len(recs) > 0

\* C23: once the cancel hook has answered true at a poll,
\* build_rows_and_assets appends no further record and leaves the scan
\* loop, and the table it writes holds exactly the records collected before
\* that poll, whose number it returns; nothing changes afterwards
C23_CancelKeepsPartialOutput ==
    [][/\ cancelled' =>
            /\ recs' = recs
            /\ pc' = "done"
            /\ nrows' = Len(recs)
            /\ ret' = Len(recs)
       /\ cancelled => UNCHANGED <<recs, pc, nrows, ret>>]_vars

\* a scan cancelled after its first record and before its second
C23_Witness ==
    /\ engine = "crc_plus" /\ cancelled /\ pc = "done"
    /\ Len(recs) = 1 /\ nrows = 1 /\ ret = 1
    /\ Hookless.ret = 2

\* a scan cancelled at its first poll
C23_WitnessAtOnce ==
    /\ engine = "crc_plus" /\ cancelled /\ pc = "done"
    /\ cur = 0 /\ recs = <<>> /\ nrows = 0 /\ ret = 0
    /\ Hookless.ret > 0

(***************************************************************************)
(* The rows written for the records.                                       *)
(***************************************************************************)
\* the body field-id each engine reads an optional value from
OptionalId ==
    [classic |-> [lat |-> 9, lon |-> 10, depth |-> 1, sample_cnt |-> 7],
     nextgen |-> [lat |-> 6, lon |-> 7, depth |-> 8, sample_cnt |-> 17]]

OptionalNames == {"lat", "lon", "depth", "sample_cnt"}

\* a cell of the CSV row: <<>> is the empty cell, <<v>> is the text of v
EmptyCell == <<>>

\* engine_classic_varstruct.parse_rsd: csv.writer writes None as the empty
\* cell and any other value as its text
ClassicRow(rec) ==
    [lat |-> rec.lat, lon |-> rec.lon, depth |-> rec.depth_mm,
     sample_cnt |-> rec.sample_cnt]

\* engine_nextgen_syncfirst.parse_rsd: str(getattr(rec, f, '')) of a value
\* that is always a number
NextgenRow(rec) ==
    [lat |-> <<rec.lat>>, lon |-> <<rec.lon>>, depth |-> <<rec.depth_m>>,
     sample_cnt |-> <<rec.sample_cnt>>]

Row(rec) == IF engine = "classic" THEN ClassicRow(rec) ELSE NextgenRow(rec)

\* the fields of the body varstruct of an emitted record, as its engine
\* parsed them
BodyOf(rec) ==
    IF engine = "classic"
    THEN ParseVarstruct(rsd, rec.body_start, Len(rsd), "strict").fields
    ELSE ParseVarstruct(rsd, rec.body_start, rec.body_start + rec.data_size, "warn").fields

AbsentIsEmpty(rec) ==
    \A f \in OptionalNames :
        OptionalId[engine][f] \notin DOMAIN BodyOf(rec) => Row(rec)[f] = EmptyCell

\* C24: in the rows of the strict and the tolerant engine an optional value
\* (latitude, longitude, depth, sample count) whose field-id is absent from
\* the record body is written as the empty cell, never as zero
C24_AbsentFieldsAreEmpty ==
    engine \in {"classic", "nextgen"} =>
        \A k \in DOMAIN recs : AbsentIsEmpty(recs[k])

\* C24 for the strict engine alone
C24_StrictAbsentFieldsAreEmpty ==
    engine = "classic" => \A k \in DOMAIN recs : AbsentIsEmpty(recs[k])

\* the tolerant engine has written zero for the latitude of a record whose
\* body holds no field 6
C24_ZeroForAbsent ==
    /\ engine = "nextgen"
    /\ \E k \in DOMAIN recs :
          /\ OptionalId.nextgen.lat \notin DOMAIN BodyOf(recs[k])
          /\ NextgenRow(recs[k]).lat = <<ZEROS4>>

\* the strict engine has left the sample count of a record without field 7
\* empty
C24_StrictEmpty ==
    /\ engine = "classic"
    /\ \E k \in DOMAIN recs :
          /\ OptionalId.classic.sample_cnt \notin DOMAIN BodyOf(recs[k])
          /\ ClassicRow(recs[k]).sample_cnt = EmptyCell

(***************************************************************************)
(* The strict engine's body parse, trailer and cursor.                     *)
(***************************************************************************)
\* C25: the body parse of a record the strict engine emits consumes no byte
\* at or beyond body_start + data_size
C25_BodyWithinDataSize ==
    engine = "classic" =>
        \A k \in DOMAIN recs : recs[k].body_end <= recs[k].body_start + recs[k].data_size

\* the strict engine has emitted a record whose body parse ended beyond
\* body_start + data_size
C25_Overrun ==
    /\ engine = "classic"
    /\ \E k \in DOMAIN recs : recs[k].body_end > recs[k].body_start + recs[k].data_size

\* the 12 bytes at trailer_pos lie within the file, begin with the trailer
\* magic and carry a positive chunk size
ValidTrailerAt(trailer_pos) ==
    /\ trailer_pos + 12 <= Len(rsd)
    /\ Slice(rsd, trailer_pos, trailer_pos + 4) = TRL_BYTES
    /\ Slice(rsd, trailer_pos + 4, trailer_pos + 8) # ZEROS4

\* C26: the strict engine emits a record only if the 12 bytes at
\* body_start + data_size lie within the file, their first 4 bytes are the
\* trailer magic and the 4-byte chunk size after them is positive
C26_EmittedHasValidTrailer ==
    engine = "classic" =>
        \A k \in DOMAIN recs : ValidTrailerAt(recs[k].body_start + recs[k].data_size)

\* the strict engine has passed over a record with a foreign trailer magic
\* and emitted only the well-formed record after it
C26_Witness ==
    /\ engine = "classic" /\ pc = "done" /\ cap = 0
    /\ rsd = Concat(<<"TM", "V">>)
    /\ Len(recs) = 1 /\ recs[1].ofs = Len(Segments["TM"])

\* ... and likewise a record whose trailer carries chunk size 0
C26_WitnessZero ==
    /\ engine = "classic" /\ pc = "done" /\ cap = 0
    /\ rsd = Concat(<<"CZ", "V">>)
    /\ Len(recs) = 1 /\ recs[1].ofs = Len(Segments["CZ"])

\* ... and a record cut short inside its trailer
C26_WitnessCut ==
    /\ engine = "classic" /\ pc = "done" /\ cap = 0
    /\ rsd = Concat(<<"V", "TL">>)
    /\ Len(recs) = 1 /\ recs[1].ofs = 0

\* the header magic the strict engine's search finds from the cursor (-1:
\* none)
CandidateAt == BytesFind(rsd, MAGIC_HDR_BYTES, cur, Len(rsd))

\* the chunk size in the trailer of an emitted record, as the file holds it
ChunkSizeOf(rec) ==
    FromLE(Slice(rsd, rec.body_start + rec.data_size + 4, rec.body_start + rec.data_size + 8))

\* C27: when the strict engine has examined the candidate whose magic is at
\* offset m and has emitted nothing for it (header decode error, header CRC
\* mismatch, body decode failure, trailer mismatch), the cursor from which
\* the next search starts is m + 4, whatever sizes the candidate declares;
\* when it has emitted the record with header offset h and trailer chunk
\* size c and goes on, the cursor is h + c
C27_StrictCursorRule ==
    [][(engine = "classic" /\ pc = "run" /\ cur < Len(rsd) /\ CandidateAt >= 0) =>
          IF Len(recs') > Len(recs)
          THEN /\ recs'[Len(recs')].ofs = CandidateAt
               /\ pc' = "run" => cur' = CandidateAt + ChunkSizeOf(recs'[Len(recs')])
          ELSE cur' = CandidateAt + 4]_vars

\* a candidate with a foreign trailer magic has been dropped and the search
\* has gone on 4 bytes past its magic, not past its declared length
C27_Witness ==
    /\ engine = "classic" /\ pc = "run"
    /\ rsd = Concat(<<"TM", "V">>)
    /\ cur = 4 /\ recs = <<>>

\* a record has been emitted and the search has gone on at h + c
C27_WitnessEmitted ==
    /\ engine = "classic" /\ pc = "run"
    /\ rsd = Concat(<<"V", "V2">>)
    /\ Len(recs) = 1 /\ cur = recs[1].ofs + ChunkSizeOf(recs[1]) /\ cur = Len(Segments["V"])

\* ... also where the chunk size is not the record's length
C27_WitnessShortChunk ==
    /\ engine = "classic" /\ pc = "run"
    /\ rsd = Concat(<<"OB", "V">>)
    /\ Len(recs) = 1 /\ ChunkSizeOf(recs[1]) = 19 /\ cur = 19

(***************************************************************************)
(* The tolerant engine's cursor after a failure.                           *)
(***************************************************************************)
\* the header magic the tolerant engine's search finds from the cursor
TolerantCandidateAt == FindMagic(rsd, MAGIC_HDR_BYTES, cur, Len(rsd), FIND_CHUNK)

\* a step of the tolerant engine that examined the candidate at m, emitted
\* nothing for it and went on; a magic followed at once by another magic is
\* skipped as a false header and is no failure of a record
TolerantFailureAt(m) ==
    /\ engine = "nextgen" /\ pc = "run" /\ cur < Len(rsd)
    /\ m >= 0
    /\ Slice(rsd, m + 4, m + 8) # MAGIC_HDR_BYTES
    /\ recs' = recs /\ pc' = "run"

\* body_start + data_size of the candidate at m, where its header decodes
\* and declares a size
DeclaredEnd(m) ==
    HeaderAt(m).pos + FromLE(Slice(HeaderAt(m).fields[4], 0, 2))

\* C28: after every failure on a candidate of the tolerant engine (header
\* pre-validation, header parse, wrong header magic field, implausible or
\* missing data size, empty body, body decode error) the cursor is
\* body_start + data_size of that candidate wherever its header declares a
\* size, never 4 bytes past the magic
C28_FailureSkipsDeclaredLength ==
    [][\A m \in {TolerantCandidateAt} :
          (/\ TolerantFailureAt(m)
           /\ \E v \in 0..65535 : DeclaresSize(HeaderAt(m), v)) =>
              cur' = DeclaredEnd(m)]_vars

\* C28 as the code has it: after a failure the cursor is 4 bytes past the
\* magic or at body_start + data_size of the candidate
C28_FailureSkipsMagicOrBody ==
    [][\A m \in {TolerantCandidateAt} :
          TolerantFailureAt(m) =>
              \/ cur' = m + 4
              \/ (\E v \in 0..65535 : DeclaresSize(HeaderAt(m), v)) /\ cur' = DeclaredEnd(m)]_vars

\* the tolerant engine has rejected a header declaring data size 20 and
\* gone on 4 bytes past its magic
C28_SkippedMagic ==
    /\ engine = "nextgen" /\ pc = "run"
    /\ rsd = Concat(<<"DS", "V">>)
    /\ DeclaresSize(HeaderAt(0), 20)
    /\ recs = <<>> /\ cur = 4

\* the tolerant engine has failed on the body of a record and gone on at
\* body_start + data_size
C28_SkippedBody ==
    /\ engine = "nextgen" /\ pc = "run"
    /\ rsd = Concat(<<"P", "V">>)
    /\ recs = <<>> /\ cur = DeclaredEnd(0) /\ cur > 4

(***************************************************************************)
(* The depth of a record.                                                  *)
(***************************************************************************)
\* the zig-zag decoding of the varuint that the bytes of a field hold
DepthOfField(bytes) ==
    LET d == ReadVarintFrom(bytes, 0, Len(bytes))
    IN  IF d.ok THEN Some(d.val) ELSE None

\* C29: for every record the strict engine emits whose body holds field 1,
\* the depth in millimetres is the zig-zag decoding of the varuint in the
\* bytes of that field, and depends on no other byte of the body
C29_DepthIsField1 ==
    engine = "classic" =>
        \A k \in DOMAIN recs :
            1 \in DOMAIN BodyOf(recs[k]) =>
                recs[k].depth_mm = DepthOfField(BodyOf(recs[k])[1])

\* C29 for rsd_core_crc_plus, which decodes the bytes of the field
C29_PlusDepthIsField1 ==
    engine = "crc_plus" =>
        \A k \in DOMAIN recs :
            \A b \in {PlusParseVarstruct(rsd, recs[k].body_start, Len(rsd), crcMode)} :
                (b.ok /\ 1 \in DOMAIN b.fields /\ Len(b.fields[1]) > 0) =>
                    recs[k].depth_mm = DepthOfField(b.fields[1])

\* the strict engine has emitted a depth of -2 mm for a record whose field 1
\* holds the byte 06, the zig-zag encoding of 3
C29_WrongDepth ==
    /\ engine = "classic"
    /\ \E k \in DOMAIN recs :
          /\ 1 \in DOMAIN BodyOf(recs[k])
          /\ BodyOf(recs[k])[1] = <<6>>
          /\ DepthOfField(<<6>>) = Some(W(3))
          /\ recs[k].depth_mm = Some(WNeg(W(2)))

\* rsd_core_crc_plus has emitted 3 mm for the same field
C29_PlusDepth ==
    /\ engine = "crc_plus"
    /\ \E k \in DOMAIN recs : recs[k].depth_mm = Some(W(3))

(***************************************************************************)
(* The points of the heuristic engine.                                     *)
(***************************************************************************)
\* the positions the scan after the header magic at h visits when nothing
\* stops it: i = h + 64, then i += 4 while i + 8 <= min(len(data), h + 512)
ScannedPositions(h) ==
    {p \in (h + SIG_SKIP)..(Min(Len(sigData), h + SIG_SPAN) - 8) :
        (p - h - SIG_SKIP) % SIG_STRIDE = 0}

\* the (header occurrence, position) pairs at which a plausible coordinate
\* is read
Matches ==
    {<<k, p>> \in (1..Len(sig.offs)) \X (0..Len(sigData)) :
        p \in ScannedPositions(sig.offs[k]) /\ PlausibleAt(p)}

\* the header occurrences after which some scanned position matches
MatchedHeaders == {m[1] : m \in Matches}

PointsInRange ==
    \A k \in DOMAIN sig.coords : Plausible(sig.coords[k][1], sig.coords[k][2])

\* C30: the heuristic engine emits one point for every scanned position
\* after a header magic at which a plausible coordinate is read: the number
\* of points is the number of matching (header occurrence, position) pairs,
\* every point lies in latitude [30, 60] and longitude [-110, -50], and the
\* returned count is the number of rows written
C30_OnePointPerMatch ==
    sig.pc = "done" =>
        /\ sig.pts = Cardinality(Matches)
        /\ PointsInRange
        /\ sig.pts = Len(sig.coords)

\* C30 as the code has it: one point for every header occurrence after
\* which some scanned position matches
C30_OnePointPerHeader ==
    sig.pc = "done" =>
        /\ sig.pts = Cardinality(MatchedHeaders)
        /\ PointsInRange
        /\ sig.pts = Len(sig.coords)

\* the engine has returned one point from a buffer in which two scanned
\* positions after the same header match
C30_SecondMatchDropped ==
    /\ sig.pc = "done"
    /\ sig.offs = <<0>>
    /\ PlausibleAt(SIG_SKIP) /\ PlausibleAt(SIG_SKIP + 8)
    /\ Cardinality(Matches) = 2
    /\ sig.pts = 1 /\ Len(sig.coords) = 1

(***************************************************************************)
(* The record cap of the strict and of the tolerant engine.                *)
(***************************************************************************)
\* the number of records the engine of the current run yields on the
\* current file when no cap is given
UncappedCount ==
    IF engine = "classic" THEN Len(ClassicRecords(rsd, 0, 0))
    ELSE Len(NextgenRun(rsd, 0, "none",
                        [cur |-> 0, count |-> 0, recs |-> <<>>, nrows |-> 0,
                         pc |-> "run", ret |-> -1, calls |-> <<>>],
                        Len(rsd) \div (4 * PassBlock) + 1).recs)

\* C31: with a record cap N >= 1, parse_rsd of the strict and of the
\* tolerant engine never has more than N rows written; when it returns, the
\* count returned is the number of rows written and is at most N, and it is
\* exactly N when the run without a cap yields at least N records on the
\* same file.
C31_CapBoundsRows ==
    (engine \in {"classic", "nextgen"} /\ cap >= 1)
        => /\ nrows <= cap
           /\ pc = "done" => /\ ret = nrows
                             /\ ret <= cap
                             /\ UncappedCount >= cap => ret = cap

\* C31, its case: the tolerant engine has returned N rows from a file on
\* which it yields more than N records without a cap
C31_Witness ==
    /\ engine = "nextgen" /\ cap >= 1 /\ pc = "done"
    /\ ret = cap /\ nrows = cap
    /\ UncappedCount > cap

\* ... and so has the strict engine
C31_WitnessStrict ==
    /\ engine = "classic" /\ cap >= 1 /\ pc = "done"
    /\ ret = cap /\ nrows = cap
    /\ UncappedCount > cap

\* ... and a capped run of a file that holds fewer than N records returns
\* what the file holds
C31_WitnessBelowCap ==
    /\ engine \in {"classic", "nextgen"} /\ cap >= 1 /\ pc = "done"
    /\ ret < cap /\ ret = UncappedCount

(***************************************************************************)
(* Termination of the scan loops: one run of one engine, the scan step of  *)
(* rsd_core_crc_plus read from parsing_rules.json.  The loop of a run is   *)
(* executed by one thread that is never suspended for good, so a pass that *)
(* can be taken is taken.                                                  *)
(***************************************************************************)
\* the "scan_step" entry of parsing_rules.json: <<>> when the file or the
\* entry is absent, <<k>> when it holds the integer k
ScanStepRules == {<<>>} \cup {<<k>> : k \in 0..MaxScanStep}

\* SCAN_STEP = int(h.get("scan_step", _RULES.get("scan_step", SCAN_STEP_DEFAULT)))
LoadScanStep(rule) == IF rule = <<>> THEN SCAN_STEP_DEFAULT ELSE rule[1]

ScanSegNames == {"V", "V2", "HB", "BB", "TM", "CS", "BS", "G"}

ScanFiles == {Concat(l) : l \in SeqsUpTo(ScanSegNames, MaxSegs) \ {<<>>}}

InitScan ==
    /\ rsd \in ScanFiles
    /\ engine \in {"classic", "nextgen", "crc_plus"}
    /\ crcMode \in (IF engine = "crc_plus" THEN {"warn", "strict"} ELSE {"warn"})
    /\ \E rule \in (IF engine = "crc_plus" THEN ScanStepRules ELSE {<<>>}) :
          scanStep = LoadScanStep(rule)
    /\ cap \in (IF engine = "crc_plus" THEN {0} ELSE 0..MaxCap)
    /\ cur = 0 /\ count = 0 /\ recs = <<>> /\ nrows = 0 /\ ret = -1 /\ pc = "run"
    /\ hooks = NoHooks /\ calls = <<>> /\ last = -1 /\ cancelled = FALSE
    /\ IdleCodec /\ IdleVs /\ IdleAux

NextScan == ClassicIter \/ NextgenIter \/ PlusIter

\* the pass the engine would take next changes the state of the run: it
\* moves the cursor, yields, reports, or leaves the loop.  This is
\* ENABLED <<NextScan>>_vars, written out on the pass operators.
PassMoves ==
    /\ pc = "run"
    /\ CASE engine = "classic" ->
              \E o \in {ClassicPass(rsd, cur, count, cap)} :
                  \/ o.cur # cur \/ o.count # count \/ o.yield # <<>> \/ o.pc # pc
                  \/ Emit(hooks.progress, o.emits) # <<>>
         [] engine = "nextgen" ->
              \E s \in {[cur |-> cur, count |-> count, recs |-> recs, nrows |-> nrows,
                         pc |-> pc, ret |-> ret, calls |-> calls]} :
                  NextgenStep(rsd, cap, hooks.progress, s) # s
         [] engine = "crc_plus" ->
              \E answer \in CancelAnswers(hooks.cancel) :
                  IF cur <= Len(rsd) - 4 /\ (answer = "raise" \/ Cancelled(answer))
                  THEN TRUE
                  ELSE \E o \in {PlusPass(rsd, cur, crcMode, scanStep)} :
                          \/ o.cur # cur \/ o.yield # <<>> \/ o.pc # pc
                          \/ cur <= Len(rsd) - 4 /\ PlusPct(cur, Len(rsd)) # last
                          \/ cancelled # (cur <= Len(rsd) - 4 /\ answer = "true")

\* weak fairness of the passes: a pass that stays possible is taken
PassesAreTaken == <>[]PassMoves => []<><<NextScan>>_vars

SpecScan == InitScan /\ [][NextScan]_vars /\ PassesAreTaken

\* C32: every scan loop terminates on every finite file: the record
\* iterators of the strict and of the tolerant engine, and
\* build_rows_and_assets for every value of the scan_step configuration,
\* with no cancel hook installed.  A loop is deterministic, so a pass that
\* leaves the whole state of the run as it found it is repeated for ever:
\* a loop that terminates is never about to take such a pass.
C32_EveryScanTerminates == pc = "run" => PassMoves

\* C32 as a property of the behaviours: under fair scheduling of the passes
\* every run leaves its loop
C32_EveryScanLeavesItsLoop == <>(pc # "run")

\* C32 for the strict and the tolerant iterator: the loop is left
C32_IteratorsTerminate ==
    engine \in {"classic", "nextgen"} => <>(pc # "run")

\* ... because every pass that stays in the loop moves the cursor, from
\* which the next header magic is searched, forward
C32_CursorAdvances ==
    [][(engine \in {"classic", "nextgen"} /\ pc' = "run") => cur' > cur]_vars

\* C32 for build_rows_and_assets with a scan step of at least one byte
C32_PlusTerminatesOnPositiveStep ==
    (engine = "crc_plus" /\ scanStep >= 1) => <>(pc # "run")

\* C32, the case that fails: build_rows_and_assets with scan step 0 has
\* probed an offset that holds no header magic and is at that offset again
C32_Stalled ==
    /\ engine = "crc_plus" /\ scanStep = 0 /\ pc = "run"
    /\ last # -1
    /\ cur <= Len(rsd) - 4
    /\ Slice(rsd, cur, cur + 4) # PlusMAGIC_REC_HDR_LE

\* C32, a scan that ends: build_rows_and_assets with scan step 2 has left
\* its loop
C32_PlusDone == engine = "crc_plus" /\ scanStep = 2 /\ pc = "done"

(***************************************************************************)
(* The sonar payload range of the tolerant engine's records.               *)
(***************************************************************************)
\* C33: for every record emitted by the tolerant engine, the sonar payload
\* range lies inside the record's body: body_start <= sonar_ofs,
\* sonar_size <= data_size and sonar_ofs >= 0, whatever 16-bit sample count
\* the body holds.
C33_SonarRangeInBody ==
    engine = "nextgen" =>
        \A j \in 1..Len(recs) :
            /\ recs[j].body_start <= recs[j].sonar_ofs
            /\ recs[j].sonar_size <= recs[j].data_size
            /\ recs[j].sonar_ofs >= 0

\* C33 as far as it holds: the range ends where the declared body ends, and
\* it lies inside the body when twice the sample count is at most the
\* declared data size
C33_SonarRangeEndsWithBody ==
    engine = "nextgen" =>
        \A j \in 1..Len(recs) :
            /\ recs[j].sonar_ofs + recs[j].sonar_size
                   = recs[j].body_start + recs[j].data_size
            /\ recs[j].sample_cnt * 2 <= recs[j].data_size
                   => /\ recs[j].body_start <= recs[j].sonar_ofs
                      /\ recs[j].sonar_size <= recs[j].data_size
                      /\ recs[j].sonar_ofs >= 0

\* C33, the case that fails: a record of 32 body bytes with sample count
\* 65535 has been emitted with a payload of 131070 bytes at a negative offset
C33_NegativeOffset ==
    /\ engine = "nextgen"
    /\ \E j \in 1..Len(recs) :
          /\ recs[j].sample_cnt = 65535 /\ recs[j].data_size = 32
          /\ recs[j].sonar_size = 131070
          /\ recs[j].sonar_ofs < 0

\* C33, a record of 7 samples, its 14 payload bytes inside its body
C33_InsideBody ==
    /\ engine = "nextgen"
    /\ \E j \in 1..Len(recs) :
          /\ recs[j].sample_cnt = 7
          /\ recs[j].body_start <= recs[j].sonar_ofs
          /\ recs[j].sonar_size <= recs[j].data_size

(***************************************************************************)
(* run_strict_with_timeout and its worker, interleaved.                    *)
(***************************************************************************)
\* what _run_strict_worker can put on the queue
WorkerResults == {WorkerOk(StrictSummary(n)) : n \in 0..MaxRows} \cup {WorkerError("error")}

\* run_strict_with_timeout has returned
StrictReturned == main.mode = "auto" /\ main.pc \in {"returned", "strict_done", "done"}

\* C34: when the worker has put its result on the queue and has exited
\* before p.join(timeout_s) returns, run_strict_with_timeout returns that
\* result (a success summary or the worker's error), not the timed-out and
\* not the "no result" outcome; and in every interleaving it returns one
\* outcome, which is not replaced afterwards, and no worker is running once
\* it has returned.
C34_ReturnsWorkerResult ==
    /\ [](StrictReturned => (main.res # None /\ worker \in {"exited", "terminated"}))
    /\ [][/\ (main.pc = "join" /\ main'.pc # "join" /\ worker = "exited" /\ queue # <<>>)
               => (main'.pc = "get" /\ queue' = queue /\ worker' = "exited")
          /\ (main.pc = "get" /\ main'.pc # "get" /\ queue # <<>>)
               => /\ main'.pc = "returned"
                  /\ main'.res = Some(Head(queue))
                  /\ Head(queue) \in WorkerResults
                  /\ Head(queue) \notin {TIMED_OUT, NO_RESULT}
          /\ (main.pc = "get" /\ main'.pc = "get")
               => (queue' = queue /\ worker' = worker /\ worker = "exited")
          /\ StrictReturned => main'.res = main.res]_vars

\* C34, its case: the worker put a summary of 11 rows and exited, the join
\* returned before the timeout, and the summary was returned
C34_Witness ==
    /\ main.mode = "auto" /\ main.pc = "returned" /\ ~main.alive
    /\ worker = "exited"
    /\ main.res = Some(WorkerOk(StrictSummary(11)))

\* ... and the worker's error
C34_WitnessError ==
    /\ main.mode = "auto" /\ main.pc = "returned" /\ ~main.alive
    /\ worker = "exited"
    /\ main.res = Some(WorkerError("error"))

\* ... and a worker terminated at the timeout: one outcome, no worker left
C34_WitnessTerminated ==
    /\ main.mode = "auto" /\ main.pc = "returned" /\ main.alive
    /\ worker = "terminated"
    /\ main.res = Some(TIMED_OUT)

====
